---- MODULE Spec2Model ----
(***************************************************************************)
(* Model of the emergent agent: the persisted State store                  *)
(* (state_manager.py), the decide-execute-record loop (agent_v2.py, and    *)
(* its first version agent.py), the reliability monitor (reliability.py)   *)
(* and the continuous-operation supervisor (continuous.py).                *)
(***************************************************************************)
EXTENDS Integers, Sequences, FiniteSets, TLC

VARIABLES
    now,            \* wall clock, seconds (time.time() / datetime.utcnow())
    state,          \* the loop's in-memory State dict
    state_file,     \* .agent_state.json: <<>> when absent, <<document>> otherwise
    agent_pc,       \* position of the agent's run: "idle", "start", "loop", "break", "v1loop"
    running,        \* AutonomousAgentV2.running
    iteration,      \* local `iteration` of run
    messages,       \* local `messages` of run: the conversation with the collaborator
    sup_pc,         \* position of run_continuous: "while", "session", "update", "finally", "done"
    cfg,            \* arguments of run_continuous
    times,          \* start_time / end_time of run_continuous, session_start of run_session
    result,         \* SessionResult returned by run_session
    stats,          \* OperationStats dict of run_continuous
    stats_file,     \* operation_stats.json: <<>> when absent, <<stats>> otherwise
    monitor,        \* a ReliabilityMonitor instance
    tracker,        \* a ProgressTracker instance
    memory_files,   \* memory/*.md: for each kind None when absent, Some(content) otherwise
    appended,       \* history: every ActionRecord ever passed through add_action
    sess_descs,     \* history: descriptors recorded by the current session
    flags,          \* history: interrupt delivered, completion signalled, iterations run,
                    \* sessions returned by run_session
    last            \* history: the operation performed by the last step

vars == <<now, state, state_file, agent_pc, running, iteration, messages, sup_pc, cfg, times,
          result, stats, stats_file, monitor, tracker, memory_files, appended, sess_descs,
          flags, last>>

storeVars == <<state_file, agent_pc, running, iteration, messages, sup_pc, cfg, times,
               result, stats, stats_file, monitor, tracker, memory_files, sess_descs, flags>>

(***************************************************************************)
(* Bounds of the model                                                     *)
(***************************************************************************)
MaxStoreCalls == 22        \* add_action calls explored by SpecStore
MaxStoreFailures == 1      \* of which carry a failed result

(***************************************************************************)
(* Python helpers                                                          *)
(***************************************************************************)
None == <<>>
Some(v) == <<v>>

\* dict.get(key, default)
Get(d, key, default) == IF key \in DOMAIN d THEN d[key] ELSE default

\* seq[-n:]
LastN(seq, n) ==
    IF Len(seq) <= n THEN seq ELSE SubSeq(seq, Len(seq) - n + 1, Len(seq))

(***************************************************************************)
(* state_manager.py                                                        *)
(***************************************************************************)
HistoryCap == 20
ReflectEvery == 10

create_initial_state(t) ==
    [ version |-> "0.1.0",
      initialized_at |-> t,
      current_working_directory |-> "project",
      files_in_context |-> <<>>,
      recent_actions |-> <<>>,
      current_phase |-> "initialization",
      actions_since_reflection |-> 0,
      last_reflection |-> None,
      total_actions |-> 0,
      session_start |-> t,
      metadata |-> [goal_set |-> FALSE, project_initialized |-> FALSE] ]

\* The JSON document json.dump writes for a State: every value carries the
\* JSON type it is written with. A timestamp is an ISO string, None is null,
\* a bool is true or false, a list an array and a dict an object.
json_string(v) == [type |-> "string", value |-> v]
json_number(v) == [type |-> "number", value |-> v]
json_literal(name) == [type |-> "literal", value |-> name]
json_bool(b) == json_literal(IF b THEN "true" ELSE "false")
json_array(seq) == [type |-> "array", value |-> seq]
json_object(rec) == [type |-> "object", value |-> rec]

json_action_entry(e) ==
    json_object([ timestamp |-> json_string(e.timestamp),
                  action |-> json_string(e.action),
                  success |-> json_bool(e.success),
                  summary |-> json_string(e.summary) ])

json_state_member(s, key) ==
    CASE key \in {"version", "initialized_at", "current_working_directory", "current_phase",
                  "session_start"} -> json_string(s[key])
      [] key \in {"actions_since_reflection", "total_actions"} -> json_number(s[key])
      [] key = "files_in_context" ->
            json_array([i \in 1..Len(s[key]) |-> json_string(s[key][i])])
      [] key = "recent_actions" ->
            json_array([i \in 1..Len(s[key]) |-> json_action_entry(s[key][i])])
      [] key = "last_reflection" ->
            IF s[key] = None THEN json_literal("null") ELSE json_string(s[key][1])
      [] key = "metadata" ->
            json_object([k \in DOMAIN s[key] |-> json_bool(s[key][k])])

\* a writer that leaves out the members whose value is None
json_dump_state_skips_null(s) ==
    json_object([key \in {k \in DOMAIN s : k # "last_reflection" \/ s[k] # None} |->
                    json_state_member(s, key)])

\* json.dump(state, f, indent=2)
json_dump_state(s) == json_object([key \in DOMAIN s |-> json_state_member(s, key)])

\* the Python value json.load builds for a JSON value
RECURSIVE json_value(_)
json_value(j) ==
    CASE j.type \in {"string", "number"} -> j.value
      [] j.type = "literal" ->
            IF j.value = "null" THEN None ELSE j.value = "true"
      [] j.type = "array" -> [i \in 1..Len(j.value) |-> json_value(j.value[i])]
      [] j.type = "object" -> [k \in DOMAIN j.value |-> json_value(j.value[k])]

\* json.load(f) of a State document; a timestamp read for last_reflection is
\* Some(timestamp) here
json_load_state(doc) ==
    [key \in DOMAIN doc.value |->
        IF key = "last_reflection" /\ doc.value[key].type = "string"
        THEN Some(json_value(doc.value[key]))
        ELSE json_value(doc.value[key])]

\* a load that starts every session with a fresh reflection counter
load_state_resets_counter(file, t) ==
    IF file = <<>>
    THEN create_initial_state(t)
    ELSE [json_load_state(file[1]) EXCEPT !.actions_since_reflection = 0]

load_state(file, t) ==
    IF file = <<>> THEN create_initial_state(t) ELSE json_load_state(file[1])

\* a save that writes the State as it was before its last record
save_state_before_last_record(s) ==
    IF s.recent_actions = <<>>
    THEN <<json_dump_state(s)>>
    ELSE <<json_dump_state([s EXCEPT !.recent_actions = SubSeq(@, 1, Len(@) - 1),
                                     !.total_actions = @ - 1])>>

save_state(s) == <<json_dump_state(s)>>

action_entry(t, action, res) ==
    [ timestamp |-> t,
      action |-> action,
      success |-> Get(res, "success", FALSE),
      summary |-> Get(res, "summary", "") ]

\* a trim that keeps the oldest entries: recent_actions[:20]
add_action_keeps_oldest(s, t, action, res) ==
    LET appendedTo == Append(s.recent_actions, action_entry(t, action, res))
        trimmed == IF Len(appendedTo) > HistoryCap
                   THEN SubSeq(appendedTo, 1, HistoryCap)
                   ELSE appendedTo
    IN  [s EXCEPT !.recent_actions = trimmed,
                  !.total_actions = @ + 1,
                  !.actions_since_reflection = @ + 1]

add_action(s, t, action, res) ==
    LET appendedTo == Append(s.recent_actions, action_entry(t, action, res))
        trimmed == IF Len(appendedTo) > HistoryCap
                   THEN LastN(appendedTo, HistoryCap)
                   ELSE appendedTo
    IN  [s EXCEPT !.recent_actions = trimmed,
                  !.total_actions = @ + 1,
                  !.actions_since_reflection = @ + 1]

should_reflect(s) == s.actions_since_reflection >= ReflectEvery

\* a reflection that also starts the count of actions again
mark_reflection_restarts_total(s, t) ==
    [s EXCEPT !.last_reflection = Some(t),
              !.actions_since_reflection = 0,
              !.total_actions = 0]

\* a reflection that also starts a new action history
mark_reflection_clears_history(s, t) ==
    [s EXCEPT !.last_reflection = Some(t),
              !.actions_since_reflection = 0,
              !.recent_actions = <<>>]

mark_reflection(s, t) ==
    [s EXCEPT !.last_reflection = Some(t),
              !.actions_since_reflection = 0]

(***************************************************************************)
(* state_manager.py: the memory files. The content of a file is a sequence *)
(* of pieces of text; a carriage return or a line feed is a piece of its    *)
(* own. memory_files maps each kind to None (no file) or Some(content).     *)
(***************************************************************************)
MemoryKinds == {"goals", "progress", "decisions", "blockers"}

NoMemory == [k \in MemoryKinds |-> None]

\* f.write in text mode: a line feed is written as os.linesep, itself a line
\* feed here; nothing else is changed
write_text(content) == content

\* f.read in text mode (universal newlines): "\r\n" and "\r" are read as "\n"
RECURSIVE read_text(_)
read_text(content) ==
    IF content = <<>>
    THEN <<>>
    ELSE IF Head(content) = "\r"
         THEN IF Len(content) >= 2 /\ content[2] = "\n"
              THEN <<"\n">> \o read_text(Tail(Tail(content)))
              ELSE <<"\n">> \o read_text(Tail(content))
         ELSE <<Head(content)>> \o read_text(Tail(content))

\* a load that gives every kind an entry, empty for a missing file
load_memory_defaults_missing(files) ==
    [k \in MemoryKinds |-> IF files[k] = None THEN <<>> ELSE read_text(files[k][1])]

load_memory(files) ==
    [k \in {kind \in MemoryKinds : files[kind] # None} |-> read_text(files[k][1])]

\* an update of an unknown kind that is stored under "goals"
update_memory_file_defaults_kind(files, file_type, content) ==
    [ raised |-> FALSE,
      error |-> None,
      files |-> [files EXCEPT ![IF file_type \in MemoryKinds THEN file_type ELSE "goals"] =
                                 Some(write_text(content))] ]

\* raised: ValueError("Unknown memory file type: ...")
update_memory_file(files, file_type, content) ==
    IF file_type \notin MemoryKinds
    THEN [raised |-> TRUE, error |-> Some(<<"Unknown memory file type: ", file_type>>),
          files |-> files]
    ELSE [raised |-> FALSE, error |-> None,
          files |-> [files EXCEPT ![file_type] = Some(write_text(content))]]

(***************************************************************************)
(* agent_v2.py: tool calls returned by the decision collaborator           *)
(***************************************************************************)
MaxCalls == 2              \* tool calls in one collaborator response

ArgsCommand == "{\"command\": \"pytest\"}"
ArgsCompact == "{\"command\":\"pytest\"}"
ArgsSummary == "{\"summary\": \"done\"}"
ArgsEmpty == "{}"
ArgsTruncated == "{\"command\": "
ArgsGoals == "{\"file_type\": \"goals\", \"content\": \"ship v2\"}"
ArgsProgress == "{\"file_type\": \"progress\", \"content\": \"tests pass\"}"

EmptyDict == [k \in {} |-> ""]

\* json.loads succeeds on a well-formed document and raises on any other text
json_valid(text) ==
    text \in {ArgsCommand, ArgsCompact, ArgsSummary, ArgsEmpty, ArgsGoals, ArgsProgress}

json_loads(text) ==
    CASE text \in {ArgsCommand, ArgsCompact} -> [k \in {"command"} |-> "pytest"]
      [] text = ArgsSummary -> [k \in {"summary"} |-> "done"]
      [] text = ArgsGoals -> [file_type |-> "goals", content |-> "ship v2"]
      [] text = ArgsProgress -> [file_type |-> "progress", content |-> "tests pass"]
      [] OTHER -> EmptyDict

\* json.dumps writes ", " and ": " separators
json_dumps(d) ==
    CASE DOMAIN d = {"command"} -> "{\"command\": \"" \o d["command"] \o "\"}"
      [] DOMAIN d = {"summary"} -> "{\"summary\": \"" \o d["summary"] \o "\"}"
      [] DOMAIN d = {"file_type", "content"} ->
            "{\"file_type\": \"" \o d["file_type"] \o "\", \"content\": \""
                \o d["content"] \o "\"}"
      [] OTHER -> "{}"

ToolCalls ==
    { [name |-> "run_command", arguments |-> ArgsCommand],
      [name |-> "run_command", arguments |-> ArgsCompact],
      [name |-> "run_command", arguments |-> ArgsEmpty],
      [name |-> "run_command", arguments |-> ArgsTruncated],
      [name |-> "complete_goal", arguments |-> ArgsSummary],
      [name |-> "complete_goal", arguments |-> ArgsEmpty],
      [name |-> "deploy", arguments |-> ArgsEmpty] }

\* what client.chat.completions.create does: raise, answer with text only, or
\* answer with one or more tool calls
\* the calls explored in front of the last call of a response
LeadCalls ==
    { [name |-> "run_command", arguments |-> ArgsCommand],
      [name |-> "complete_goal", arguments |-> ArgsSummary] }

CallLists ==
    UNION { { Append(lead, c) : lead \in [1..(n - 1) -> LeadCalls], c \in ToolCalls } :
            n \in 1..MaxCalls }

Responses ==
    { [kind |-> "raise", calls |-> <<>>], [kind |-> "text", calls |-> <<>>] }
    \cup { [kind |-> "tools", calls |-> cs] : cs \in CallLists }

\* command_tools.run_command: the exit code of the command decides success
run_command(command, exit_ok) ==
    [ success |-> exit_ok,
      summary |-> IF exit_ok THEN "Test completed successfully"
                             ELSE "Test failed (exit code non-zero)",
      data |-> [exit_code |-> IF exit_ok THEN 0 ELSE 1],
      next_suggestions |-> IF exit_ok THEN <<"Tests passing - continue with next task">>
                                      ELSE <<"Fix the errors and try again">> ]

tool_failed(text) ==
    [ success |-> FALSE,
      summary |-> "Tool execution failed: " \o text,
      data |-> EmptyDict,
      next_suggestions |-> <<"Try a different approach">> ]

\* a dispatcher that treats a name outside the catalog as a failure of the tool
execute_tool_raises_on_unknown(function_name, args, exit_ok) ==
    CASE function_name = "run_command" ->
            IF "command" \in DOMAIN args
            THEN run_command(args["command"], exit_ok)
            ELSE tool_failed("'command'")
      [] function_name = "update_memory" ->
            IF {"file_type", "content"} \subseteq DOMAIN args
            THEN IF args["file_type"] \in MemoryKinds
                 THEN [ success |-> TRUE,
                        summary |-> "Updated " \o args["file_type"] \o " memory",
                        data |-> EmptyDict,
                        next_suggestions |-> <<"Continue with next task">> ]
                 ELSE tool_failed("Unknown memory file type: " \o args["file_type"])
            ELSE tool_failed(IF "file_type" \in DOMAIN args THEN "'content'"
                                                              ELSE "'file_type'")
      [] function_name = "complete_goal" ->
            IF "summary" \in DOMAIN args
            THEN [ success |-> TRUE, summary |-> args["summary"],
                   data |-> EmptyDict, next_suggestions |-> <<>> ]
            ELSE tool_failed("'summary'")
      [] OTHER -> tool_failed(function_name)

execute_tool(function_name, args, exit_ok) ==
    CASE function_name = "run_command" ->
            IF "command" \in DOMAIN args
            THEN run_command(args["command"], exit_ok)
            ELSE tool_failed("'command'")
      [] function_name = "update_memory" ->
            IF {"file_type", "content"} \subseteq DOMAIN args
            THEN IF args["file_type"] \in MemoryKinds
                 THEN [ success |-> TRUE,
                        summary |-> "Updated " \o args["file_type"] \o " memory",
                        data |-> EmptyDict,
                        next_suggestions |-> <<"Continue with next task">> ]
                 ELSE tool_failed("Unknown memory file type: " \o args["file_type"])
            ELSE tool_failed(IF "file_type" \in DOMAIN args THEN "'content'"
                                                              ELSE "'file_type'")
      [] function_name = "complete_goal" ->
            IF "summary" \in DOMAIN args
            THEN [ success |-> TRUE, summary |-> args["summary"],
                   data |-> EmptyDict, next_suggestions |-> <<>> ]
            ELSE tool_failed("'summary'")
      [] OTHER ->
            [ success |-> FALSE, summary |-> "Unknown tool: " \o function_name,
              data |-> EmptyDict, next_suggestions |-> <<>> ]

descriptor(function_name, args) == function_name \o "(" \o json_dumps(args) \o ")"

\* the memory files after the update_memory calls among the dispatched calls
\* (_execute_tool lines 400-410); a call that fails writes nothing
RECURSIVE tool_memory(_, _)
tool_memory(files, calls) ==
    IF calls = <<>>
    THEN files
    ELSE LET c == Head(calls)
             args == json_loads(c.arguments)
             written == IF /\ c.name = "update_memory"
                           /\ json_valid(c.arguments)
                           /\ {"file_type", "content"} \subseteq DOMAIN args
                        THEN update_memory_file(files, args["file_type"],
                                                <<args["content"]>>).files
                        ELSE files
         IN  tool_memory(written, Tail(calls))

\* a loop that dispatches the calls that follow complete_goal as well
RECURSIVE run_tool_calls_goes_on(_, _, _, _)
run_tool_calls_goes_on(s, calls, t, exit_ok) ==
    IF calls = <<>>
    THEN [state |-> s, running |-> TRUE, raised |-> FALSE, error |-> "", descs |-> <<>>,
          tool_errors |-> 0]
    ELSE LET c == Head(calls) IN
         IF ~json_valid(c.arguments)
         THEN [state |-> s, running |-> TRUE, raised |-> TRUE,
               error |-> "Expecting value", descs |-> <<>>, tool_errors |-> 0]
         ELSE LET args == json_loads(c.arguments)
                  res == execute_tool(c.name, args, exit_ok)
                  desc == descriptor(c.name, args)
                  s2 == add_action(s, t, desc, res)
                  caught == IF res = tool_failed("'command'") \/ res = tool_failed("'summary'")
                            THEN 1 ELSE 0
                  rest == run_tool_calls_goes_on(s2, Tail(calls), t, exit_ok)
              IN  IF c.name = "complete_goal" /\ "summary" \notin DOMAIN args
                  THEN [state |-> s2, running |-> TRUE, raised |-> TRUE,
                        error |-> "'summary'", descs |-> <<desc>>,
                        tool_errors |-> caught]
                  ELSE [rest EXCEPT !.running = @ /\ c.name # "complete_goal",
                                    !.descs = <<desc>> \o @,
                                    !.tool_errors = @ + caught]

\* the `for tool_call in assistant_message.tool_calls` loop. raised: an
\* exception left the loop for the handler of run; done: tool calls recorded
RECURSIVE run_tool_calls(_, _, _, _)
run_tool_calls(s, calls, t, exit_ok) ==
    IF calls = <<>>
    THEN [state |-> s, running |-> TRUE, raised |-> FALSE, error |-> "", descs |-> <<>>,
          tool_errors |-> 0]
    ELSE LET c == Head(calls) IN
         IF ~json_valid(c.arguments)
         THEN [state |-> s, running |-> TRUE, raised |-> TRUE,
               error |-> "Expecting value", descs |-> <<>>, tool_errors |-> 0]
         ELSE LET args == json_loads(c.arguments)
                  res == execute_tool(c.name, args, exit_ok)
                  desc == descriptor(c.name, args)
                  s2 == add_action(s, t, desc, res)
                  caught == IF res = tool_failed("'command'") \/ res = tool_failed("'summary'")
                            THEN 1 ELSE 0
              IN  IF c.name = "complete_goal"
                  THEN IF "summary" \in DOMAIN args
                       THEN [state |-> s2, running |-> FALSE, raised |-> FALSE,
                             error |-> "", descs |-> <<desc>>, tool_errors |-> caught]
                       ELSE [state |-> s2, running |-> TRUE, raised |-> TRUE,
                             error |-> "'summary'", descs |-> <<desc>>,
                             tool_errors |-> caught]
                  ELSE LET rest == run_tool_calls(s2, Tail(calls), t, exit_ok)
                       IN  [rest EXCEPT !.descs = <<desc>> \o @,
                                        !.tool_errors = @ + caught]

error_result(text) == [success |-> FALSE, summary |-> "Error: " \o text]

\* the tool calls of a response that were dispatched, given the outcome of the
\* iteration: each recorded a descriptor, an exception recorded "error" after them
dispatched(calls, out) ==
    SubSeq(calls, 1, Len(out.descs) - (IF out.raised THEN 1 ELSE 0))

\* a handler that ends the session instead of recording the error
iteration_outcome_stops_on_error(s0, resp, t, exit_ok) ==
    LET reflected == should_reflect(s0)
        s1 == IF reflected THEN mark_reflection(s0, t) ELSE s0
        p == IF resp.kind = "tools"
             THEN run_tool_calls(s1, resp.calls, t, exit_ok)
             ELSE [state |-> s1, running |-> TRUE, raised |-> resp.kind = "raise",
                   error |-> "Connection error.", descs |-> <<>>, tool_errors |-> 0]
    IN  [state |-> p.state, running |-> p.running /\ ~p.raised, raised |-> p.raised,
         reflected |-> reflected, descs |-> p.descs, tool_errors |-> p.tool_errors]

\* the body of the try block of run and its `except Exception` handler, up to
\* the state that is saved
iteration_outcome(s0, resp, t, exit_ok) ==
    LET reflected == should_reflect(s0)
        s1 == IF reflected THEN mark_reflection(s0, t) ELSE s0
        p == IF resp.kind = "tools"
             THEN run_tool_calls(s1, resp.calls, t, exit_ok)
             ELSE [state |-> s1, running |-> TRUE, raised |-> resp.kind = "raise",
                   error |-> "Connection error.", descs |-> <<>>, tool_errors |-> 0]
    IN  IF p.raised
        THEN [state |-> add_action(p.state, t, "error", error_result(p.error)),
              running |-> p.running, raised |-> TRUE, reflected |-> reflected,
              descs |-> Append(p.descs, "error"), tool_errors |-> p.tool_errors]
        ELSE [state |-> p.state, running |-> p.running, raised |-> FALSE,
              reflected |-> reflected, descs |-> p.descs, tool_errors |-> p.tool_errors]

(***************************************************************************)
(* agent_v2.py: the conversation `messages` of run. A message is known by   *)
(* its role, what it carries, the iteration that appended it and, for a     *)
(* tool result, the position of its tool call in the response.              *)
(***************************************************************************)
MessageCap == 20
KeepRecent == 15

system_message == [role |-> "system", kind |-> "system_prompt", at |-> 0, n |-> 0]
context_message(iter) == [role |-> "user", kind |-> "context", at |-> iter, n |-> 0]
reflection_message(iter) == [role |-> "user", kind |-> "reflection_prompt", at |-> iter, n |-> 0]
assistant_message(iter, calls) ==
    [role |-> "assistant", kind |-> "assistant", at |-> iter, n |-> Len(calls)]
tool_message(iter, k) == [role |-> "tool", kind |-> "tool_result", at |-> iter, n |-> k]

\* _reflect: the prompt is appended to the conversation, nothing is requested
reflect(msgs, iter) == Append(msgs, reflection_message(iter))

\* run lines 226-241: the list handed to client.chat.completions.create by
\* iteration iter, entered with State s0 and conversation msgs
build_request(msgs, s0, iter, t) ==
    LET reflected == should_reflect(s0)
        m1 == IF reflected THEN reflect(msgs, iter) ELSE msgs
        s1 == IF reflected THEN mark_reflection(s0, t) ELSE s0
    IN  IF iter = 1 \/ s1.actions_since_reflection = 0
        THEN <<system_message, context_message(iter)>>
        ELSE m1

\* a compaction that keeps the most recent messages only: messages[-16:]
compact_drops_head(msgs) ==
    IF Len(msgs) > MessageCap
    THEN LastN(msgs, KeepRecent + 1)
    ELSE msgs

\* run lines 300-303
compact(msgs) ==
    IF Len(msgs) > MessageCap
    THEN <<msgs[1]>> \o LastN(msgs, KeepRecent)
    ELSE msgs

\* the messages appended after the request: the answer and one tool message for
\* each tool call that was dispatched
answered(req, s1, iter, resp, t, exit_ok) ==
    LET p == run_tool_calls(s1, resp.calls, t, exit_ok)
    IN  Append(req, assistant_message(iter, resp.calls))
        \o [k \in 1..Len(p.descs) |-> tool_message(iter, k)]

\* the request of iteration iter, the conversation when the iteration reaches
\* line 300 or leaves the try block, and the conversation it leaves behind; the
\* compaction is skipped when an exception reaches the handler of run
iteration_messages(msgs, s0, iter, resp, t, exit_ok) ==
    LET req == build_request(msgs, s0, iter, t)
        s1 == IF should_reflect(s0) THEN mark_reflection(s0, t) ELSE s0
        out == iteration_outcome(s0, resp, t, exit_ok)
        grown == IF resp.kind = "raise"
                 THEN req
                 ELSE answered(req, s1, iter, resp, t, exit_ok)
    IN  [ request |-> req,
          before |-> grown,
          messages |-> IF out.raised THEN grown ELSE compact(grown) ]

\* the same when KeyboardInterrupt cuts the iteration short after `at` tool
\* calls (0: while the request is pending), where no compaction takes place
interrupted_messages(msgs, s0, iter, cut, at, t, exit_ok) ==
    LET req == build_request(msgs, s0, iter, t)
        s1 == IF should_reflect(s0) THEN mark_reflection(s0, t) ELSE s0
    IN  IF at = -1
        THEN [request |-> <<>>, before |-> msgs, messages |-> msgs]
        ELSE LET grown == IF at = 0 THEN req
                          ELSE answered(req, s1, iter, cut, t, exit_ok)
             IN  [request |-> req, before |-> grown, messages |-> grown]

(***************************************************************************)
(* reliability.py: ReliabilityMonitor                                      *)
(***************************************************************************)
RingCapacity == 10
loop_threshold == 3
watchdog_timeout == 1800
token_waste_threshold == 100000

monitor_init(t) ==
    [ recent_actions |-> <<>>,
      last_progress_time |-> t,
      total_tokens_since_progress |-> 0 ]

\* a progress call that starts the count with its own tokens
record_action_counts_own_tokens(m, t, action, made_progress, tokens_used) ==
    LET pushed == LastN(Append(m.recent_actions, action), RingCapacity)
    IN  IF made_progress
        THEN [m EXCEPT !.recent_actions = pushed,
                       !.last_progress_time = t,
                       !.total_tokens_since_progress = tokens_used]
        ELSE [m EXCEPT !.recent_actions = pushed,
                       !.total_tokens_since_progress = @ + tokens_used]

\* a ring that evicts the newest entry when it is full
record_action_evicts_newest(m, t, action, made_progress, tokens_used) ==
    LET pushed == IF Len(m.recent_actions) < RingCapacity
                  THEN Append(m.recent_actions, action)
                  ELSE Append(SubSeq(m.recent_actions, 1, RingCapacity - 1), action)
    IN  IF made_progress
        THEN [m EXCEPT !.recent_actions = pushed,
                       !.last_progress_time = t,
                       !.total_tokens_since_progress = 0]
        ELSE [m EXCEPT !.recent_actions = pushed,
                       !.total_tokens_since_progress = @ + tokens_used]

record_action(m, t, action, made_progress, tokens_used) ==
    LET pushed == LastN(Append(m.recent_actions, action), RingCapacity)
    IN  IF made_progress
        THEN [m EXCEPT !.recent_actions = pushed,
                       !.last_progress_time = t,
                       !.total_tokens_since_progress = 0]
        ELSE [m EXCEPT !.recent_actions = pushed,
                       !.total_tokens_since_progress = @ + tokens_used]

SeqRange(seq) == { seq[i] : i \in 1..Len(seq) }

\* a detector that wants four equal descriptors
detect_loop_needs_four(m) ==
    IF Len(m.recent_actions) < loop_threshold + 1
    THEN None
    ELSE LET recent == LastN(m.recent_actions, loop_threshold + 1)
         IN  IF Cardinality(SeqRange(recent)) = 1 THEN Some(recent[1]) ELSE None

\* None, or Some(text) naming the loop
detect_loop(m) ==
    IF Len(m.recent_actions) < loop_threshold
    THEN None
    ELSE LET recent == LastN(m.recent_actions, loop_threshold)
         IN  IF Cardinality(SeqRange(recent)) = 1
             THEN Some(recent[1])
             ELSE IF Len(recent) >= 4 /\ recent[1] = recent[3] /\ recent[2] = recent[4]
                  THEN Some("alternating: " \o recent[1] \o " <-> " \o recent[2])
                  ELSE None

\* a watchdog that fires at the limit itself
check_watchdog_at_limit(m, t) == t - m.last_progress_time >= watchdog_timeout

check_watchdog(m, t) == t - m.last_progress_time > watchdog_timeout

check_token_waste(m) == m.total_tokens_since_progress > token_waste_threshold

\* `if loop:` is the truth value of what detect_loop returned
truthy(loop) == loop # None /\ loop # Some("")

\* a decision that asks the watchdog first
should_restart_watchdog_first(m, t) ==
    IF check_watchdog(m, t)
    THEN [should_restart |-> TRUE, reason |-> Some("watchdog_timeout"),
          details |-> Some(<<"No progress for ", t - m.last_progress_time>>)]
    ELSE IF truthy(detect_loop(m))
         THEN [should_restart |-> TRUE, reason |-> Some("loop_detected"),
               details |-> Some(<<"Agent stuck repeating: ", detect_loop(m)[1]>>)]
         ELSE IF check_token_waste(m)
              THEN [should_restart |-> TRUE, reason |-> Some("token_waste"),
                    details |-> Some(<<"Used ", m.total_tokens_since_progress>>)]
              ELSE [should_restart |-> FALSE, reason |-> None, details |-> None]

\* a decision that never looks at the tokens
should_restart_ignores_tokens(m, t) ==
    IF truthy(detect_loop(m))
    THEN [should_restart |-> TRUE, reason |-> Some("loop_detected"),
          details |-> Some(<<"Agent stuck repeating: ", detect_loop(m)[1]>>)]
    ELSE IF check_watchdog(m, t)
         THEN [should_restart |-> TRUE, reason |-> Some("watchdog_timeout"),
               details |-> Some(<<"No progress for ", t - m.last_progress_time>>)]
         ELSE [should_restart |-> FALSE, reason |-> None, details |-> None]

\* details keeps the two pieces of the formatted text apart
should_restart(m, t) ==
    IF truthy(detect_loop(m))
    THEN [should_restart |-> TRUE, reason |-> Some("loop_detected"),
          details |-> Some(<<"Agent stuck repeating: ", detect_loop(m)[1]>>)]
    ELSE IF check_watchdog(m, t)
         THEN [should_restart |-> TRUE, reason |-> Some("watchdog_timeout"),
               details |-> Some(<<"No progress for ", t - m.last_progress_time>>)]
         ELSE IF check_token_waste(m)
              THEN [should_restart |-> TRUE, reason |-> Some("token_waste"),
                    details |-> Some(<<"Used ", m.total_tokens_since_progress>>)]
              ELSE [should_restart |-> FALSE, reason |-> None, details |-> None]

get_status(m, t) ==
    [ recent_actions |-> m.recent_actions,
      time_since_progress |-> t - m.last_progress_time,
      tokens_since_progress |-> m.total_tokens_since_progress,
      loop_detected |-> detect_loop(m),
      watchdog_ok |-> ~check_watchdog(m, t),
      token_usage_ok |-> ~check_token_waste(m) ]

(***************************************************************************)
(* reliability.py: ProgressTracker                                         *)
(***************************************************************************)
tracker_init ==
    [ milestones |-> <<>>,
      files_created |-> {},
      files_modified |-> {},
      commands_run |-> <<>>,
      tests_passed |-> 0,
      errors_encountered |-> 0 ]

milestone(type, subject, t) == [type |-> type, subject |-> subject, timestamp |-> t]

record_file_created(tr, filepath, t) ==
    [tr EXCEPT !.files_created = @ \cup {filepath},
               !.milestones = Append(@, milestone("file_created", filepath, t))]

record_file_modified(tr, filepath, t) ==
    [tr EXCEPT !.files_modified = @ \cup {filepath},
               !.milestones = Append(@, milestone("file_modified", filepath, t))]

\* "test" in command.lower() or "pytest" in command.lower(), for the commands
\* explored
names_a_test(command) == command \in {"pytest -q", "npm TEST"}

record_command_success(tr, command, t) ==
    IF names_a_test(command)
    THEN [tr EXCEPT !.commands_run = Append(@, command),
                    !.tests_passed = @ + 1,
                    !.milestones = Append(@, milestone("test_passed", command, t))]
    ELSE [tr EXCEPT !.commands_run = Append(@, command),
                    !.milestones = Append(@, milestone("command_success", command, t))]

record_error(tr) == [tr EXCEPT !.errors_encountered = @ + 1]

\* a test that counts every milestone as recent, however old
made_progress_recently_ever(tr, t, window) == tr.milestones # <<>>

made_progress_recently(tr, t, window) ==
    \E i \in 1..Len(tr.milestones) : tr.milestones[i].timestamp > t - window

(***************************************************************************)
(* continuous.py: ContinuousRunner                                         *)
(***************************************************************************)
MaxHours == 1              \* largest duration_hours explored
MaxIter == 2               \* largest session_iterations explored
MaxSessions == 2           \* sessions one supervised run may start
MaxRunIterations == 2      \* loop iterations explored in one supervised run
TickSeconds == 3600        \* granularity of the passing of time
MaxNow == MaxHours * 3600

restart_delay == 10
session_timeout == 3600    \* run_continuous default, handed to run_session as timeout

Goal == "build the project"

\* _set_goal: the goals document written when a session starts
goals_content(goal) ==
    << "# Goals", "\n", "## Primary Objective", "\n", goal, "\n",
       "## Success Criteria", "\n", "- [ ] Verification done", "\n",
       "## Current Focus", "\n", "Starting work on the goal", "\n" >>

\* a start that leaves a goals document that exists as it is
set_goal_keeps_existing(files, goal) ==
    IF files["goals"] # None
    THEN files
    ELSE update_memory_file(files, "goals", goals_content(goal)).files

set_goal(files, goal) == update_memory_file(files, "goals", goals_content(goal)).files

\* AutonomousAgent._set_goal of agent.py
goals_content_v1(goal) ==
    << "# Goals", "\n", "## Primary Objective", "\n", goal, "\n",
       "## Success Criteria", "\n", "- [ ] Tests passing", "\n",
       "## Current Focus", "\n", "Understanding the goal and planning approach", "\n" >>

initial_stats(goal, t, hours) ==
    [ goal |-> goal,
      started_at |-> t,
      duration_hours |-> hours,
      sessions_completed |-> 0,
      sessions_failed |-> 0,
      total_actions |-> 0,
      total_runtime |-> 0,
      errors |-> <<>>,
      ended_at |-> None ]

update_stats(st) == <<st>>

NoResult == [success |-> FALSE, duration |-> 0, total_actions |-> 0, error |-> None]

NoStep == [op |-> "none", reflected |-> FALSE, raised |-> FALSE, decide_raised |-> FALSE,
           tool_errors |-> 0, descs |-> <<>>, interrupted |-> FALSE, request |-> <<>>,
           before |-> <<>>, calls |-> 0, content |-> "", memory |-> <<>>, error |-> <<>>]

\* the state a workspace is left in by n successful run_command actions
RECURSIVE workspace_after(_)
workspace_after(n) ==
    IF n = 0
    THEN [create_initial_state(0) EXCEPT !.metadata.goal_set = TRUE]
    ELSE add_action(workspace_after(n - 1), 0,
                    descriptor("run_command", json_loads(ArgsCommand)),
                    run_command("pytest", TRUE))

ExistingWorkspace == workspace_after(ReflectEvery - 1)

Init ==
    /\ now = 0
    /\ state_file \in {<<>>, save_state(ExistingWorkspace)}
    /\ state = load_state(state_file, 0)
    /\ agent_pc = "idle"
    /\ running = FALSE
    /\ iteration = 0
    /\ messages = <<>>
    /\ sup_pc = "while"
    /\ cfg \in [ goal : {Goal},
                 duration_hours : 0..MaxHours,
                 session_iterations : {MaxIter} ]
    /\ times = [ start_time |-> 0,
                 end_time |-> cfg.duration_hours * 3600,
                 session_start |-> 0 ]
    /\ result = NoResult
    /\ stats = initial_stats(cfg.goal, 0, cfg.duration_hours)
    /\ stats_file = <<>>
    /\ monitor = monitor_init(0)
    /\ tracker = tracker_init
    /\ memory_files = NoMemory
    /\ appended = <<>>
    /\ sess_descs = <<>>
    /\ flags = [interrupted |-> FALSE, completion_signalled |-> FALSE, iterations |-> 0,
               returned |-> 0]
    /\ last = NoStep

sessions_returned == stats.sessions_completed + stats.sessions_failed

\* a loop that runs one iteration more than max_iterations
loop_continues_past_limit == running /\ iteration <= cfg.session_iterations

\* run line 219: `while self.running and iteration < max_iterations`
loop_continues == running /\ iteration < cfg.session_iterations

\* a loop that tests the budget after the session instead of before it
SupWhile_tests_after ==
    /\ sup_pc = "while"
    /\ sessions_returned < MaxSessions
    /\ IF now < times.end_time \/ sessions_returned = 0
       THEN /\ sup_pc' = "session"
            /\ agent_pc' = "start"
            /\ times' = [times EXCEPT !.session_start = now]
       ELSE /\ sup_pc' = "finally"
            /\ UNCHANGED <<agent_pc, times>>
    /\ last' = [NoStep EXCEPT !.op = "SupWhile"]
    /\ UNCHANGED <<now, state, state_file, running, iteration, messages, cfg, result, stats,
                   stats_file, monitor, tracker, memory_files, appended, sess_descs, flags>>

\* run_continuous, line 125: the `while time.time() < end_time` test; a true
\* test enters run_session, which takes session_start
SupWhile ==
    /\ sup_pc = "while"
    /\ (now < times.end_time) => sessions_returned < MaxSessions
    /\ IF now < times.end_time
       THEN /\ sup_pc' = "session"
            /\ agent_pc' = "start"
            /\ times' = [times EXCEPT !.session_start = now]
       ELSE /\ sup_pc' = "finally"
            /\ UNCHANGED <<agent_pc, times>>
    /\ last' = [NoStep EXCEPT !.op = "SupWhile"]
    /\ UNCHANGED <<now, state, state_file, running, iteration, messages, cfg, result, stats,
                   stats_file, monitor, tracker, memory_files, appended, sess_descs, flags>>

\* run_session lines 49-57 and run lines 198-217: the agent is constructed, the
\* State loaded and the goal set; an exception there leaves run_session through
\* its `except Exception`
AgentStartup(raises) ==
    /\ sup_pc = "session"
    /\ agent_pc = "start"
    /\ IF raises
       THEN /\ agent_pc' = "idle"
            /\ sup_pc' = "update"
            /\ result' = [ success |-> FALSE,
                           duration |-> now - times.session_start,
                           total_actions |-> 0,
                           error |-> Some("The api_key client option must be set") ]
            /\ UNCHANGED <<state, running, iteration, messages, sess_descs, memory_files>>
       ELSE /\ state' = [load_state(state_file, now) EXCEPT !.metadata.goal_set = TRUE]
            /\ running' = TRUE
            /\ iteration' = 0
            /\ messages' = <<>>
            /\ memory_files' = set_goal(memory_files, cfg.goal)
            /\ sess_descs' = <<>>
            /\ agent_pc' = "loop"
            /\ UNCHANGED <<sup_pc, result>>
    /\ flags' = [flags EXCEPT !.returned = IF raises THEN @ + 1 ELSE @]
    /\ last' = [NoStep EXCEPT !.op = "AgentStartup", !.raised = raises]
    /\ UNCHANGED <<now, state_file, cfg, times, stats, stats_file, monitor, tracker, appended>>

\* run lines 219-321: one iteration of the loop that no interrupt cuts short
Iterate(resp, exit_ok) ==
    /\ agent_pc = "loop"
    /\ loop_continues
    /\ flags.iterations < MaxRunIterations
    /\ LET out == iteration_outcome(state, resp, now, exit_ok)
           conv == iteration_messages(messages, state, iteration + 1, resp, now, exit_ok)
       IN  /\ state' = out.state
           /\ state_file' = save_state(out.state)
           /\ running' = out.running
           /\ messages' = conv.messages
           /\ sess_descs' = sess_descs \o out.descs
           /\ flags' = [flags EXCEPT !.completion_signalled = @ \/ ~out.running,
                                     !.iterations = @ + 1]
           /\ last' = [ op |-> "Iterate", reflected |-> out.reflected,
                        raised |-> out.raised, decide_raised |-> resp.kind = "raise",
                        tool_errors |-> out.tool_errors, descs |-> out.descs,
                        interrupted |-> FALSE, request |-> conv.request,
                        before |-> conv.before, calls |-> Len(resp.calls),
                        content |-> "" ]
    /\ iteration' = iteration + 1
    /\ memory_files' = tool_memory(memory_files,
                           dispatched(resp.calls, iteration_outcome(state, resp, now, exit_ok)))
    /\ UNCHANGED <<now, agent_pc, sup_pc, cfg, times, result, stats, stats_file,
                   monitor, tracker, appended>>

\* run lines 219-308: an iteration during which KeyboardInterrupt is raised
\* inside the try block: before the reflection check (at = -1), while waiting
\* for the collaborator (at = 0) or after at tool calls were recorded
IterateInterrupted(resp, at, exit_ok) ==
    /\ agent_pc = "loop"
    /\ loop_continues
    /\ flags.iterations < MaxRunIterations
    /\ at \in (-1)..Len(resp.calls)
    /\ LET cut == [kind |-> IF at > 0 THEN "tools" ELSE "text",
                   calls |-> IF at > 0 THEN SubSeq(resp.calls, 1, at) ELSE <<>>]
           out == IF at = -1
                  THEN [state |-> state, running |-> TRUE, raised |-> FALSE,
                        reflected |-> FALSE, descs |-> <<>>, tool_errors |-> 0]
                  ELSE iteration_outcome(state, cut, now, exit_ok)
           conv == interrupted_messages(messages, state, iteration + 1, cut, at, now, exit_ok)
       IN  /\ ~out.raised
           /\ memory_files' = tool_memory(memory_files, dispatched(cut.calls, out))
           /\ messages' = conv.messages
           /\ state' = out.state
           /\ state_file' = save_state(out.state)
           /\ running' = out.running
           /\ sess_descs' = sess_descs \o out.descs
           /\ flags' = [flags EXCEPT !.interrupted = TRUE,
                                     !.completion_signalled = @ \/ ~out.running,
                                     !.iterations = @ + 1]
           /\ last' = [ op |-> "IterateInterrupted", reflected |-> out.reflected,
                        raised |-> FALSE, decide_raised |-> FALSE,
                        tool_errors |-> out.tool_errors, descs |-> out.descs,
                        interrupted |-> TRUE, request |-> conv.request,
                        before |-> conv.before, calls |-> Len(resp.calls),
                        content |-> "" ]
    /\ iteration' = iteration + 1
    /\ agent_pc' = "break"
    /\ UNCHANGED <<now, sup_pc, cfg, times, result, stats, stats_file, monitor, tracker,
                   appended>>

\* a session that reports the interrupt its loop caught as its failure
SessionReturn_reports_interrupt ==
    /\ sup_pc = "session"
    /\ agent_pc \in {"loop", "break"}
    /\ (agent_pc = "loop") => ~loop_continues
    /\ agent_pc' = "idle"
    /\ sup_pc' = "update"
    /\ result' = [ success |-> agent_pc # "break",
                   duration |-> now - times.session_start,
                   total_actions |-> IF agent_pc = "break" THEN 0
                                     ELSE Get(state, "total_actions", 0),
                   error |-> IF agent_pc = "break" THEN Some("KeyboardInterrupt") ELSE None ]
    /\ flags' = [flags EXCEPT !.returned = @ + 1]
    /\ last' = [NoStep EXCEPT !.op = "SessionReturn"]
    /\ UNCHANGED <<now, state, state_file, running, iteration, messages, cfg, times, stats,
                   stats_file, monitor, tracker, memory_files, appended, sess_descs>>

\* run lines 219 and 323-328, run_session lines 59-66: the loop is left and the
\* session returns its result
SessionReturn ==
    /\ sup_pc = "session"
    /\ agent_pc \in {"loop", "break"}
    /\ (agent_pc = "loop") => ~loop_continues
    /\ agent_pc' = "idle"
    /\ sup_pc' = "update"
    /\ result' = [ success |-> TRUE,
                   duration |-> now - times.session_start,
                   total_actions |-> Get(state, "total_actions", 0),
                   error |-> None ]
    /\ flags' = [flags EXCEPT !.returned = @ + 1]
    /\ last' = [NoStep EXCEPT !.op = "SessionReturn"]
    /\ UNCHANGED <<now, state, state_file, running, iteration, messages, cfg, times, stats,
                   stats_file, monitor, tracker, memory_files, appended, sess_descs>>

completion_marker(file) ==
    file # <<>> /\ Get(load_state(file, 0), "current_phase", "") = "complete"

\* an accounting that forgets the error text of a failed session
PostSession_drops_error ==
    /\ sup_pc = "update"
    /\ LET counted == IF result.success
                      THEN [stats EXCEPT !.sessions_completed = @ + 1,
                                         !.total_actions = @ + result.total_actions]
                      ELSE [stats EXCEPT !.sessions_failed = @ + 1]
           st == [counted EXCEPT !.total_runtime = @ + result.duration]
       IN  /\ stats' = st
           /\ stats_file' = update_stats(st)
    /\ IF completion_marker(state_file)
       THEN /\ sup_pc' = "finally"
            /\ now' = now
       ELSE /\ sup_pc' = "while"
            /\ now' = IF now < times.end_time THEN now + restart_delay ELSE now
    /\ last' = [NoStep EXCEPT !.op = "PostSession"]
    /\ UNCHANGED <<state, state_file, agent_pc, running, iteration, messages, cfg, times, result,
                   monitor, tracker, memory_files, appended, sess_descs, flags>>

\* a supervisor that gives up after a failed session
PostSession_aborts_on_failure ==
    /\ sup_pc = "update"
    /\ LET counted == IF result.success
                      THEN [stats EXCEPT !.sessions_completed = @ + 1,
                                         !.total_actions = @ + result.total_actions]
                      ELSE [stats EXCEPT !.sessions_failed = @ + 1,
                                         !.errors = Append(@, [timestamp |-> now,
                                                               error |-> result.error[1]])]
           st == [counted EXCEPT !.total_runtime = @ + result.duration]
       IN  /\ stats' = st
           /\ stats_file' = update_stats(st)
    /\ IF completion_marker(state_file) \/ ~result.success
       THEN /\ sup_pc' = "finally"
            /\ now' = now
       ELSE /\ sup_pc' = "while"
            /\ now' = IF now < times.end_time THEN now + restart_delay ELSE now
    /\ last' = [NoStep EXCEPT !.op = "PostSession"]
    /\ UNCHANGED <<state, state_file, agent_pc, running, iteration, messages, cfg, times, result,
                   monitor, tracker, memory_files, appended, sess_descs, flags>>

\* an accounting that counts a failed session as a completed one as well
PostSession_counts_failure_twice ==
    /\ sup_pc = "update"
    /\ LET counted == IF result.success
                      THEN [stats EXCEPT !.sessions_completed = @ + 1,
                                         !.total_actions = @ + result.total_actions]
                      ELSE [stats EXCEPT !.sessions_failed = @ + 1,
                                         !.sessions_completed = @ + 1,
                                         !.errors = Append(@, [timestamp |-> now,
                                                               error |-> result.error[1]])]
           st == [counted EXCEPT !.total_runtime = @ + result.duration]
       IN  /\ stats' = st
           /\ stats_file' = update_stats(st)
    /\ IF completion_marker(state_file)
       THEN /\ sup_pc' = "finally"
            /\ now' = now
       ELSE /\ sup_pc' = "while"
            /\ now' = IF now < times.end_time THEN now + restart_delay ELSE now
    /\ last' = [NoStep EXCEPT !.op = "PostSession"]
    /\ UNCHANGED <<state, state_file, agent_pc, running, iteration, messages, cfg, times, result,
                   monitor, tracker, memory_files, appended, sess_descs, flags>>

\* run_continuous lines 136-164: the result is accounted, the stats persisted,
\* the completion marker looked for and the restart delay slept
PostSession ==
    /\ sup_pc = "update"
    /\ LET counted == IF result.success
                      THEN [stats EXCEPT !.sessions_completed = @ + 1,
                                         !.total_actions = @ + result.total_actions]
                      ELSE [stats EXCEPT !.sessions_failed = @ + 1,
                                         !.errors = Append(@, [timestamp |-> now,
                                                               error |-> result.error[1]])]
           st == [counted EXCEPT !.total_runtime = @ + result.duration]
       IN  /\ stats' = st
           /\ stats_file' = update_stats(st)
    /\ IF completion_marker(state_file)
       THEN /\ sup_pc' = "finally"
            /\ now' = now
       ELSE /\ sup_pc' = "while"
            /\ now' = IF now < times.end_time THEN now + restart_delay ELSE now
    /\ last' = [NoStep EXCEPT !.op = "PostSession"]
    /\ UNCHANGED <<state, state_file, agent_pc, running, iteration, messages, cfg, times, result,
                   monitor, tracker, memory_files, appended, sess_descs, flags>>

\* KeyboardInterrupt raised anywhere outside the try block of run: it leaves
\* run and run_session (lines 68-70) and is caught at run_continuous line 166
Interrupt ==
    /\ sup_pc \in {"while", "session", "update"}
    /\ sup_pc' = "finally"
    /\ agent_pc' = "idle"
    /\ flags' = [flags EXCEPT !.interrupted = TRUE]
    /\ last' = [NoStep EXCEPT !.op = "Interrupt", !.interrupted = TRUE]
    /\ UNCHANGED <<now, state, state_file, running, iteration, messages, cfg, times, result,
                   stats, stats_file, monitor, tracker, memory_files, appended, sess_descs>>

\* a finally block that sets the end timestamp without writing the stats file
Finalize_keeps_file ==
    /\ sup_pc = "finally"
    /\ stats' = [stats EXCEPT !.ended_at = Some(now),
                              !.total_runtime = now - times.start_time]
    /\ sup_pc' = "done"
    /\ last' = [NoStep EXCEPT !.op = "Finalize"]
    /\ UNCHANGED <<now, state, state_file, agent_pc, running, iteration, messages, cfg, times,
                   result, stats_file, monitor, tracker, memory_files, appended, sess_descs,
                   flags>>

\* run_continuous lines 169-183: the finally block
Finalize ==
    /\ sup_pc = "finally"
    /\ LET st == [stats EXCEPT !.ended_at = Some(now),
                               !.total_runtime = now - times.start_time]
       IN  /\ stats' = st
           /\ stats_file' = update_stats(st)
    /\ sup_pc' = "done"
    /\ last' = [NoStep EXCEPT !.op = "Finalize"]
    /\ UNCHANGED <<now, state, state_file, agent_pc, running, iteration, messages, cfg, times,
                   result, monitor, tracker, memory_files, appended, sess_descs, flags>>

\* time passes
Tick ==
    /\ sup_pc \in {"while", "session", "update"}
    /\ now < MaxNow
    /\ now' = now + TickSeconds
    /\ last' = [NoStep EXCEPT !.op = "Tick"]
    /\ UNCHANGED <<state, state_file, agent_pc, running, iteration, messages, sup_pc, cfg, times,
                   result, stats, stats_file, monitor, tracker, memory_files, appended, sess_descs, flags>>

Next ==
    \/ SupWhile
    \/ \E raises \in BOOLEAN : AgentStartup(raises)
    \/ \E resp \in Responses, exit_ok \in BOOLEAN : Iterate(resp, exit_ok)
    \/ \E resp \in Responses, at \in (-1)..MaxCalls, exit_ok \in BOOLEAN :
          IterateInterrupted(resp, at, exit_ok)
    \/ SessionReturn
    \/ PostSession
    \/ Interrupt
    \/ Finalize
    \/ Tick

Spec == Init /\ [][Next]_vars

(***************************************************************************)
(* The State store on its own: add_action and mark_reflection applied in   *)
(* any order to a fresh State, one call per instant of the clock.          *)
(***************************************************************************)
StoreInputs ==
    { [action |-> descriptor("run_command", json_loads(ArgsCommand)),
       res |-> run_command("pytest", TRUE)],
      [action |-> descriptor("run_command", json_loads(ArgsEmpty)),
       res |-> tool_failed("'command'")],
      [action |-> "error", res |-> error_result("Connection error.")],
      [action |-> "think", res |-> EmptyDict] }

failures(records) == Cardinality({ i \in 1..Len(records) : ~records[i].success })

InitStore ==
    /\ now = 0
    /\ state = create_initial_state(0)
    /\ state_file = <<>>
    /\ agent_pc = "idle"
    /\ running = FALSE
    /\ iteration = 0
    /\ messages = <<>>
    /\ sup_pc = "done"
    /\ cfg = [goal |-> Goal, duration_hours |-> 0, session_iterations |-> 0]
    /\ times = [start_time |-> 0, end_time |-> 0, session_start |-> 0]
    /\ result = NoResult
    /\ stats = initial_stats(Goal, 0, 0)
    /\ stats_file = <<>>
    /\ monitor = monitor_init(0)
    /\ tracker = tracker_init
    /\ memory_files = NoMemory
    /\ appended = <<>>
    /\ sess_descs = <<>>
    /\ flags = [interrupted |-> FALSE, completion_signalled |-> FALSE, iterations |-> 0,
               returned |-> 0]
    /\ last = NoStep

StoreAddAction(in) ==
    /\ Len(appended) < MaxStoreCalls
    /\ ~Get(in.res, "success", FALSE) => failures(appended) < MaxStoreFailures
    /\ state' = add_action(state, now, in.action, in.res)
    /\ appended' = Append(appended, action_entry(now, in.action, in.res))
    /\ now' = now + 1
    /\ last' = [NoStep EXCEPT !.op = "add_action", !.descs = <<in.action>>]
    /\ UNCHANGED storeVars

StoreMarkReflection ==
    /\ state' = mark_reflection(state, now)
    /\ last' = [NoStep EXCEPT !.op = "mark_reflection", !.reflected = should_reflect(state)]
    /\ UNCHANGED <<now, appended>>
    /\ UNCHANGED storeVars

NextStore ==
    \/ \E in \in StoreInputs : StoreAddAction(in)
    \/ StoreMarkReflection

SpecStore == InitStore /\ [][NextStore]_vars

(***************************************************************************)
(* One session of run on a fresh workspace, long enough for the            *)
(* conversation to reach its cap.                                          *)
(***************************************************************************)
MaxSessionIterations == 15   \* max_iterations of the session explored
MaxSessionErrors == 1        \* answers that end in the exception handler
MaxSessionToolAnswers == 3   \* answers that carry tool calls

SessionResponses ==
    { [kind |-> "text", calls |-> <<>>],
      [kind |-> "raise", calls |-> <<>>],
      [kind |-> "tools", calls |-> << [name |-> "run_command", arguments |-> ArgsTruncated] >>],
      [kind |-> "tools", calls |-> << [name |-> "run_command", arguments |-> ArgsCommand],
                                      [name |-> "run_command", arguments |-> ArgsCommand] >>] }

occurrences(seq, x) == Cardinality({ i \in 1..Len(seq) : seq[i] = x })

InitSession ==
    /\ now = 0
    /\ state = [create_initial_state(0) EXCEPT !.metadata.goal_set = TRUE]
    /\ state_file = <<>>
    /\ agent_pc = "loop"
    /\ running = TRUE
    /\ iteration = 0
    /\ messages = <<>>
    /\ sup_pc = "session"
    /\ cfg = [goal |-> Goal, duration_hours |-> 1, session_iterations |-> MaxSessionIterations]
    /\ times = [start_time |-> 0, end_time |-> 3600, session_start |-> 0]
    /\ result = NoResult
    /\ stats = initial_stats(Goal, 0, 1)
    /\ stats_file = <<>>
    /\ monitor = monitor_init(0)
    /\ tracker = tracker_init
    /\ memory_files = update_memory_file(NoMemory, "goals", goals_content(Goal)).files
    /\ appended = <<>>
    /\ sess_descs = <<>>
    /\ flags = [interrupted |-> FALSE, completion_signalled |-> FALSE, iterations |-> 0,
               returned |-> 0]
    /\ last = NoStep

\* run lines 219-321: one iteration of the loop, as in Iterate
SessionIterate(resp) ==
    /\ agent_pc = "loop"
    /\ loop_continues
    /\ LET out == iteration_outcome(state, resp, now, TRUE)
           conv == iteration_messages(messages, state, iteration + 1, resp, now, TRUE)
       IN  /\ out.raised => occurrences(sess_descs, "error") < MaxSessionErrors
           /\ (resp.kind = "tools" /\ ~out.raised) =>
                 Len(sess_descs) - occurrences(sess_descs, "error") < 2 * MaxSessionToolAnswers
           /\ state' = out.state
           /\ state_file' = save_state(out.state)
           /\ running' = out.running
           /\ messages' = conv.messages
           /\ sess_descs' = sess_descs \o out.descs
           /\ flags' = [flags EXCEPT !.completion_signalled = @ \/ ~out.running,
                                     !.iterations = @ + 1]
           /\ last' = [ op |-> "Iterate", reflected |-> out.reflected,
                        raised |-> out.raised, decide_raised |-> resp.kind = "raise",
                        tool_errors |-> out.tool_errors, descs |-> out.descs,
                        interrupted |-> FALSE, request |-> conv.request,
                        before |-> conv.before, calls |-> Len(resp.calls),
                        content |-> "" ]
    /\ iteration' = iteration + 1
    /\ memory_files' = tool_memory(memory_files,
                           dispatched(resp.calls, iteration_outcome(state, resp, now, TRUE)))
    /\ UNCHANGED <<now, agent_pc, sup_pc, cfg, times, result, stats, stats_file,
                   monitor, tracker, appended>>

NextSession ==
    \/ \E resp \in SessionResponses : SessionIterate(resp)
    \/ SessionReturn

SpecSession == InitSession /\ [][NextSession]_vars

\* the loop is sequential code: while a next step exists it is taken
SpecSessionFair == SpecSession /\ WF_vars(NextSession)

(***************************************************************************)
(* agent.py: one session of the first agent, AutonomousAgent.run            *)
(***************************************************************************)
MaxV1Iterations == 5       \* max_iterations of the session explored

\* what the collaborator's answer says, or an exception raised by the request
\* of _reflect or of _decide_next_action
V1Answers ==
    { [raises |-> "none", content |-> "The next step is to run the tests."],
      [raises |-> "none", content |-> "complete"],
      [raises |-> "none", content |-> "wait_for_input"],
      [raises |-> "reflect", content |-> ""],
      [raises |-> "decide", content |-> ""] }

\* _decide_next_action: whatever the answer says, the action is "think"
decide_next_action(content) ==
    [action |-> "think", reasoning |-> content, details |-> EmptyDict]

execute_action(action) ==
    IF action.action = "think"
    THEN [success |-> TRUE, summary |-> "Reasoning complete"]
    ELSE [success |-> FALSE, summary |-> "Action " \o action.action \o " not yet implemented"]

\* the body of the try block of AutonomousAgent.run with its `except Exception`
\* handler; saved: the State was written to the state file
v1_iteration(s0, answer, t) ==
    LET due == should_reflect(s0)
        reflected == due /\ answer.raises # "reflect"
        s1 == IF reflected THEN mark_reflection(s0, t) ELSE s0
        raised == answer.raises = "decide" \/ (due /\ answer.raises = "reflect")
        action_result == decide_next_action(answer.content)
    IN  IF raised
        THEN [state |-> add_action(s1, t, "error", error_result("Connection error.")),
              running |-> TRUE, raised |-> TRUE, reflected |-> reflected,
              descs |-> <<"error">>, saved |-> TRUE]
        ELSE IF action_result.action \in {"complete", "wait_for_input"}
             THEN [state |-> s1, running |-> FALSE, raised |-> FALSE,
                   reflected |-> reflected, descs |-> <<>>, saved |-> FALSE]
             ELSE [state |-> add_action(s1, t, action_result.action,
                                        execute_action(action_result)),
                   running |-> TRUE, raised |-> FALSE, reflected |-> reflected,
                   descs |-> <<action_result.action>>, saved |-> TRUE]

InitV1 ==
    /\ now = 0
    /\ state_file \in {<<>>, save_state(ExistingWorkspace)}
    /\ state = [load_state(state_file, 0) EXCEPT !.metadata.goal_set = TRUE]
    /\ agent_pc = "v1loop"
    /\ running = TRUE
    /\ iteration = 0
    /\ messages = <<>>
    /\ sup_pc = "done"
    /\ cfg = [goal |-> Goal, duration_hours |-> 0, session_iterations |-> MaxV1Iterations]
    /\ times = [start_time |-> 0, end_time |-> 0, session_start |-> 0]
    /\ result = NoResult
    /\ stats = initial_stats(Goal, 0, 0)
    /\ stats_file = <<>>
    /\ monitor = monitor_init(0)
    /\ tracker = tracker_init
    /\ memory_files = update_memory_file(NoMemory, "goals", goals_content_v1(Goal)).files
    /\ appended = <<>>
    /\ sess_descs = <<>>
    /\ flags = [interrupted |-> FALSE, completion_signalled |-> FALSE, iterations |-> 0,
               returned |-> 0]
    /\ last = NoStep

\* agent.py lines 40-97: one iteration of the loop
V1Iterate(answer) ==
    /\ agent_pc = "v1loop"
    /\ running
    /\ iteration < cfg.session_iterations
    /\ LET out == v1_iteration(state, answer, now)
       IN  /\ state' = out.state
           /\ state_file' = IF out.saved THEN save_state(out.state) ELSE state_file
           /\ running' = out.running
           /\ sess_descs' = sess_descs \o out.descs
           /\ flags' = [flags EXCEPT !.iterations = @ + 1]
           /\ last' = [NoStep EXCEPT !.op = "V1Iterate", !.reflected = out.reflected,
                                     !.raised = out.raised, !.descs = out.descs,
                                     !.decide_raised = answer.raises = "decide",
                                     !.content = answer.content]
    /\ iteration' = iteration + 1
    /\ UNCHANGED <<now, agent_pc, messages, sup_pc, cfg, times, result, stats, stats_file,
                   monitor, tracker, memory_files, appended>>

\* agent.py lines 40 and 98-102: the loop is left and run returns
V1Return ==
    /\ agent_pc = "v1loop"
    /\ ~(running /\ iteration < cfg.session_iterations)
    /\ agent_pc' = "idle"
    /\ last' = [NoStep EXCEPT !.op = "V1Return"]
    /\ UNCHANGED <<now, state, state_file, running, iteration, messages, sup_pc, cfg, times,
                   result, stats, stats_file, monitor, tracker, memory_files, appended, sess_descs, flags>>

NextV1 ==
    \/ \E answer \in V1Answers : V1Iterate(answer)
    \/ V1Return

SpecV1 == InitV1 /\ [][NextV1]_vars

(***************************************************************************)
(* The ReliabilityMonitor on its own: record_action called with any         *)
(* descriptor, progress flag and token count, its queries, and the clock.   *)
(***************************************************************************)
MaxMonitorCalls == 4       \* record_action calls explored by SpecMonitor
MaxMonitorProgress == 2    \* of which are flagged as progress
MaxMonitorTokenCalls == 2  \* of which carry tokens
MaxMonitorTicks == 3       \* steps of the clock explored by SpecMonitor
MonitorTickSeconds == 1800 \* length of one step of the clock

MonitorQueries ==
    {"get_status", "detect_loop", "check_watchdog", "check_token_waste", "should_restart"}

MonitorDescriptors == {"A", "B", "C"}
MonitorTokens == {0, 60000}

InitMonitor ==
    /\ now = 0
    /\ state = create_initial_state(0)
    /\ state_file = <<>>
    /\ agent_pc = "idle"
    /\ running = FALSE
    /\ iteration = 0
    /\ messages = <<>>
    /\ sup_pc = "done"
    /\ cfg = [goal |-> Goal, duration_hours |-> 0, session_iterations |-> 0]
    /\ times = [start_time |-> 0, end_time |-> 0, session_start |-> 0]
    /\ result = NoResult
    /\ stats = initial_stats(Goal, 0, 0)
    /\ stats_file = <<>>
    /\ monitor = monitor_init(0)
    /\ tracker = tracker_init
    /\ memory_files = NoMemory
    /\ appended = <<>>
    /\ sess_descs = <<>>
    /\ flags = [interrupted |-> FALSE, completion_signalled |-> FALSE, iterations |-> 0,
               returned |-> 0]
    /\ last = NoStep

calls_with(calls, field, value) ==
    Cardinality({ i \in 1..Len(calls) : calls[i][field] = value })

\* ReliabilityMonitor.record_action; sess_descs keeps every descriptor passed
\* and appended every call with its arguments and, for a call flagged as
\* progress, its instant
MonitorRecordAction(action, made_progress, tokens_used) ==
    /\ Len(sess_descs) < MaxMonitorCalls
    /\ made_progress => calls_with(appended, "made_progress", TRUE) < MaxMonitorProgress
    /\ tokens_used # 0 =>
          Len(appended) - calls_with(appended, "tokens_used", 0) < MaxMonitorTokenCalls
    /\ monitor' = record_action(monitor, now, action, made_progress, tokens_used)
    /\ sess_descs' = Append(sess_descs, action)
    /\ appended' = Append(appended, [ action |-> action, made_progress |-> made_progress,
                                      tokens_used |-> tokens_used,
                                      progress_at |-> IF made_progress THEN Some(now)
                                                      ELSE None ])
    /\ last' = [NoStep EXCEPT !.op = "record_action", !.descs = <<action>>]
    /\ UNCHANGED <<now, state, state_file, agent_pc, running, iteration, messages, sup_pc,
                   cfg, times, result, stats, stats_file, tracker, memory_files, flags>>

\* a status query that starts the token count again
MonitorQuery_resets_tokens(query) ==
    /\ monitor' = IF query = "get_status"
                  THEN [monitor EXCEPT !.total_tokens_since_progress = 0]
                  ELSE monitor
    /\ last' = [NoStep EXCEPT !.op = "query"]
    /\ UNCHANGED <<now, state, state_file, agent_pc, running, iteration, messages, sup_pc,
                   cfg, times, result, stats, stats_file, tracker, memory_files, appended,
                   sess_descs, flags>>

\* get_status, detect_loop, check_watchdog, check_token_waste, should_restart:
\* none of them assigns to a field of the monitor
MonitorQuery(query) ==
    /\ query \in MonitorQueries
    /\ last' = [NoStep EXCEPT !.op = "query"]
    /\ UNCHANGED <<now, state, state_file, agent_pc, running, iteration, messages, sup_pc,
                   cfg, times, result, stats, stats_file, monitor, tracker, memory_files,
                   appended, sess_descs, flags>>

\* time passes
MonitorTick ==
    /\ now < MaxMonitorTicks * MonitorTickSeconds
    /\ now' = now + MonitorTickSeconds
    /\ last' = [NoStep EXCEPT !.op = "Tick"]
    /\ UNCHANGED <<state, state_file, agent_pc, running, iteration, messages, sup_pc,
                   cfg, times, result, stats, stats_file, monitor, tracker, memory_files,
                   appended, sess_descs, flags>>

NextMonitor ==
    \/ \E action \in MonitorDescriptors, made_progress \in BOOLEAN,
          tokens_used \in MonitorTokens :
            MonitorRecordAction(action, made_progress, tokens_used)
    \/ \E query \in MonitorQueries : MonitorQuery(query)
    \/ MonitorTick

SpecMonitor == InitMonitor /\ [][NextMonitor]_vars

(***************************************************************************)
(* The ring buffer of the ReliabilityMonitor: record_action called more     *)
(* often than the ring has room.                                           *)
(***************************************************************************)
MaxRingCalls == 12         \* record_action calls explored by SpecRing

RingDescriptors == {"A", "B"}

\* ReliabilityMonitor.record_action with its default arguments
RingRecordAction(action) ==
    /\ Len(sess_descs) < MaxRingCalls
    /\ monitor' = record_action(monitor, now, action, FALSE, 0)
    /\ sess_descs' = Append(sess_descs, action)
    /\ last' = [NoStep EXCEPT !.op = "record_action", !.descs = <<action>>]
    /\ UNCHANGED <<now, state, state_file, agent_pc, running, iteration, messages, sup_pc,
                   cfg, times, result, stats, stats_file, tracker, memory_files, appended,
                   flags>>

NextRing == \E action \in RingDescriptors : RingRecordAction(action)

SpecRing == InitMonitor /\ [][NextRing]_vars

(***************************************************************************)
(* The ProgressTracker on its own: milestones recorded while time passes.   *)
(***************************************************************************)
MaxTrackerCalls == 3       \* record_* calls explored by SpecTracker
MaxTrackerTicks == 5       \* advances of the clock explored by SpecTracker
TrackerTickSeconds == 300  \* granularity of the passing of time

TrackerFiles == {"main.py"}
TrackerCommands == {"ls", "pytest -q", "npm TEST"}
TrackerWindows == {300, 600, 900}

TrackerCall(op, subject, recorded) ==
    /\ Len(appended) < MaxTrackerCalls
    /\ appended' = Append(appended, [op |-> op, subject |-> subject, milestone |-> recorded,
                                     at |-> now])
    /\ last' = [NoStep EXCEPT !.op = op]
    /\ UNCHANGED <<now, state, state_file, agent_pc, running, iteration, messages, sup_pc,
                   cfg, times, result, stats, stats_file, monitor, memory_files, sess_descs,
                   flags>>

TrackerRecordFileCreated(filepath) ==
    /\ tracker' = record_file_created(tracker, filepath, now)
    /\ TrackerCall("record_file_created", filepath, TRUE)

TrackerRecordFileModified(filepath) ==
    /\ tracker' = record_file_modified(tracker, filepath, now)
    /\ TrackerCall("record_file_modified", filepath, TRUE)

TrackerRecordCommandSuccess(command) ==
    /\ tracker' = record_command_success(tracker, command, now)
    /\ TrackerCall("record_command_success", command, TRUE)

TrackerRecordError ==
    /\ tracker' = record_error(tracker)
    /\ TrackerCall("record_error", "", FALSE)

TrackerTick ==
    /\ now < MaxTrackerTicks * TrackerTickSeconds
    /\ now' = now + TrackerTickSeconds
    /\ last' = [NoStep EXCEPT !.op = "Tick"]
    /\ UNCHANGED <<state, state_file, agent_pc, running, iteration, messages, sup_pc, cfg,
                   times, result, stats, stats_file, monitor, tracker, memory_files,
                   appended, sess_descs, flags>>

NextTracker ==
    \/ \E filepath \in TrackerFiles : TrackerRecordFileCreated(filepath)
    \/ \E filepath \in TrackerFiles : TrackerRecordFileModified(filepath)
    \/ \E command \in TrackerCommands : TrackerRecordCommandSuccess(command)
    \/ TrackerRecordError
    \/ TrackerTick

SpecTracker == InitMonitor /\ [][NextTracker]_vars

(***************************************************************************)
(* The memory documents of the StateManager on their own.                   *)
(***************************************************************************)
MaxMemoryCalls == 3        \* update_memory_file calls explored by SpecMemory

\* the four kinds and one that is none of them
MemoryCallKinds == MemoryKinds \cup {"notes"}

\* contents: empty, one line, two lines, and lines ended the ways text may end
\* them
MemoryContents ==
    { <<>>, <<"a">>, <<"a", "\n", "b">>, <<"a", "\r", "\n", "b">>, <<"a", "\r", "b">> }

\* StateManager.update_memory_file; last.before keeps the files as they were
MemoryUpdate(file_type, content) ==
    /\ Len(sess_descs) < MaxMemoryCalls
    /\ LET out == update_memory_file(memory_files, file_type, content)
       IN  /\ memory_files' = out.files
           /\ last' = [NoStep EXCEPT !.op = "update_memory_file", !.descs = <<file_type>>,
                                     !.request = content, !.raised = out.raised,
                                     !.error = out.error, !.before = memory_files]
    /\ sess_descs' = Append(sess_descs, file_type)
    /\ UNCHANGED <<now, state, state_file, agent_pc, running, iteration, messages, sup_pc,
                   cfg, times, result, stats, stats_file, monitor, tracker, appended, flags>>

\* StateManager.load_memory; last.memory keeps what it returned
MemoryLoad ==
    /\ last' = [NoStep EXCEPT !.op = "load_memory", !.memory = load_memory(memory_files)]
    /\ UNCHANGED <<now, state, state_file, agent_pc, running, iteration, messages, sup_pc,
                   cfg, times, result, stats, stats_file, monitor, tracker, memory_files,
                   appended, sess_descs, flags>>

NextMemory ==
    \/ \E file_type \in MemoryCallKinds, content \in MemoryContents :
          MemoryUpdate(file_type, content)
    \/ MemoryLoad

SpecMemory == InitMonitor /\ [][NextMemory]_vars

(***************************************************************************)
(* A supervised run whose collaborator writes the memory documents with the *)
(* update_memory tool.                                                     *)
(***************************************************************************)
MemoryResponses ==
    { [kind |-> "text", calls |-> <<>>],
      [kind |-> "tools", calls |-> << [name |-> "update_memory", arguments |-> ArgsGoals] >>],
      [kind |-> "tools", calls |-> << [name |-> "update_memory", arguments |-> ArgsProgress] >>],
      [kind |-> "tools", calls |-> << [name |-> "complete_goal", arguments |-> ArgsSummary],
                                      [name |-> "update_memory", arguments |-> ArgsGoals] >>] }

\* the memory documents a workspace may hold when the run starts
InitialMemories ==
    { NoMemory,
      [NoMemory EXCEPT !["goals"] = Some(<<"old goals">>),
                       !["decisions"] = Some(<<"use sqlite">>)] }

InitRestart ==
    /\ now = 0
    /\ state_file = <<>>
    /\ state = load_state(state_file, 0)
    /\ agent_pc = "idle"
    /\ running = FALSE
    /\ iteration = 0
    /\ messages = <<>>
    /\ sup_pc = "while"
    /\ cfg = [goal |-> Goal, duration_hours |-> MaxHours, session_iterations |-> MaxIter]
    /\ times = [start_time |-> 0, end_time |-> cfg.duration_hours * 3600, session_start |-> 0]
    /\ result = NoResult
    /\ stats = initial_stats(cfg.goal, 0, cfg.duration_hours)
    /\ stats_file = <<>>
    /\ monitor = monitor_init(0)
    /\ tracker = tracker_init
    /\ memory_files \in InitialMemories
    /\ appended = <<>>
    /\ sess_descs = <<>>
    /\ flags = [interrupted |-> FALSE, completion_signalled |-> FALSE, iterations |-> 0,
               returned |-> 0]
    /\ last = NoStep

NextRestart ==
    \/ SupWhile
    \/ \E raises \in BOOLEAN : AgentStartup(raises)
    \/ \E resp \in MemoryResponses : Iterate(resp, TRUE)
    \/ SessionReturn
    \/ PostSession
    \/ Finalize
    \/ Tick

SpecRestart == InitRestart /\ [][NextRestart]_vars

(***************************************************************************)
(* Properties                                                              *)
(***************************************************************************)
\* the ActionRecords the last step appended to State
AddedRecords == LastN(state.recent_actions, Len(last.descs))

ErrorRecords(records) == { i \in 1..Len(records) : records[i].action = "error" }

ToolFailureRecords(records) ==
    { i \in 1..Len(records) :
        /\ records[i].action # "error"
        /\ ~records[i].success
        /\ records[i].summary \in { tool_failed("'command'").summary,
                                    tool_failed("'summary'").summary } }

\* C1 as claimed: an iteration in which the decision collaborator or a tool
\* raised an exception appends exactly one ActionRecord with descriptor
\* "error", failed, and leaves the loop running
C1_AnyExceptionBecomesError ==
    (last.op = "Iterate" /\ (last.decide_raised \/ last.tool_errors > 0)) =>
        /\ Cardinality(ErrorRecords(AddedRecords)) = 1
        /\ \A i \in ErrorRecords(AddedRecords) : ~AddedRecords[i].success
        /\ agent_pc = "loop"
        /\ running

\* C1 amended: an exception of the collaborator call becomes the only record of
\* the iteration, a failed "error" record; an exception inside a tool becomes a
\* failed record under the descriptor of that tool call; an "error" record is
\* appended exactly when an exception reached the handler of run, and then
\* only one; the State is saved and the session stays in its loop, which only
\* a successful complete_goal stops
C1_ExceptionsRecorded ==
    last.op = "Iterate" =>
        /\ Cardinality(ErrorRecords(AddedRecords)) = (IF last.raised THEN 1 ELSE 0)
        /\ \A i \in ErrorRecords(AddedRecords) :
              ~AddedRecords[i].success /\ i = Len(AddedRecords)
        /\ last.decide_raised =>
              /\ last.raised
              /\ Len(AddedRecords) = 1
              /\ running
        /\ Cardinality(ToolFailureRecords(AddedRecords)) = last.tool_errors
        /\ last.raised => running
        /\ ~running =>
              \E i \in 1..Len(AddedRecords) :
                 /\ AddedRecords[i].action = descriptor("complete_goal", json_loads(ArgsSummary))
                 /\ AddedRecords[i].success
        /\ agent_pc = "loop"
        /\ state_file = save_state(state)

C1_Witness ==
    /\ last.op = "Iterate"
    /\ last.decide_raised
    /\ iteration < cfg.session_iterations
    /\ state.recent_actions[Len(state.recent_actions)].action = "error"

\* C2: accounting a failed session adds one to sessions_failed and the error
\* text to the error log, leaves sessions_completed and total_actions alone
\* and returns to the test of the session loop
C2_FailedSessionAccounted ==
    [][ (sup_pc = "update" /\ last'.op = "PostSession" /\ ~result.success) =>
            /\ stats'.sessions_failed = stats.sessions_failed + 1
            /\ Len(stats'.errors) = Len(stats.errors) + 1
            /\ SubSeq(stats'.errors, 1, Len(stats.errors)) = stats.errors
            /\ stats'.errors[Len(stats'.errors)].error = result.error[1]
            /\ stats'.sessions_completed = stats.sessions_completed
            /\ stats'.total_actions = stats.total_actions
            /\ stats_file' = <<stats'>>
            /\ sup_pc' = "while" ]_vars

\* a session started after a failed one
C2_Witness ==
    /\ stats.sessions_failed = 1
    /\ Len(stats.errors) = 1
    /\ sup_pc = "session"
    /\ agent_pc = "loop"

\* C3: the session loop is left for the finally block only when the budget
\* test fails, the completion marker is in the State file, or KeyboardInterrupt
\* reaches run_continuous
C3_StopReasons ==
    [][ (sup_pc \in {"while", "session", "update"} /\ sup_pc' = "finally") =>
            \/ sup_pc = "while" /\ now >= times.end_time
            \/ sup_pc = "update" /\ completion_marker(state_file)
            \/ last'.op = "Interrupt" ]_vars

\* the budget ends a run whose sessions all failed
C3_Witness ==
    /\ sup_pc = "finally"
    /\ stats.sessions_failed = 2
    /\ ~flags.interrupted
    /\ now >= times.end_time

\* C4 as claimed: after the collaborator signalled completion the State file
\* carries the completion marker and no session is started
C4_CompletionStopsRun ==
    [][ flags.completion_signalled =>
            /\ (agent_pc = "idle" => completion_marker(state_file))
            /\ ~(sup_pc = "while" /\ sup_pc' = "session") ]_vars

\* C5 as claimed: a run with duration_hours = 0 has run a session by the time it
\* reaches the finally block on its own
C5_ZeroBudgetRunsSession ==
    (cfg.duration_hours = 0 /\ sup_pc \in {"finally", "done"} /\ ~flags.interrupted) =>
        sessions_returned >= 1

\* C5 amended: a run with duration_hours = 0 starts no session; it ends with the
\* final stats, which count no session, persisted
C5_ZeroBudgetRunsNothing ==
    cfg.duration_hours = 0 =>
        /\ sup_pc # "session"
        /\ agent_pc = "idle"
        /\ sessions_returned = 0
        /\ stats.total_actions = 0
        /\ sup_pc = "done" => (stats_file = <<stats>> /\ stats.ended_at = Some(now))

C5_Witness ==
    /\ cfg.duration_hours = 0
    /\ sup_pc = "done"
    /\ ~flags.interrupted
    /\ stats_file = <<stats>>

\* C6 as claimed: once KeyboardInterrupt was delivered, the supervisor starts
\* no session
C6_InterruptStopsRun ==
    [][ flags.interrupted => ~(sup_pc = "while" /\ sup_pc' = "session") ]_vars

\* C7 as claimed: while a session runs, the ring buffer of the monitor holds
\* the most recent descriptors the session recorded in State
C7_MonitorFollowsSession ==
    agent_pc \in {"loop", "break"} =>
        monitor.recent_actions = LastN(sess_descs, RingCapacity)

\* C8: the history is the last min(n, 20) records appended, in append order
C8_HistoryIsLastTwenty ==
    /\ state.recent_actions = LastN(appended, HistoryCap)
    /\ Len(state.recent_actions) <= HistoryCap
    /\ Len(state.recent_actions) >= Len(appended) => state.recent_actions = appended

C8_Witness ==
    /\ Len(appended) = HistoryCap + 2
    /\ Len(state.recent_actions) = HistoryCap
    /\ state.recent_actions[1] = appended[3]
    /\ state.recent_actions[1] # appended[1]

\* C9: should_reflect is the test actions_since_reflection >= 10, and
\* mark_reflection leaves the counter at 0 and last_reflection set, with every
\* other field as it was
C9_ReflectionCounter ==
    [][ /\ should_reflect(state) <=> state.actions_since_reflection >= 10
        /\ last'.op = "mark_reflection" =>
              /\ state'.actions_since_reflection = 0
              /\ state'.last_reflection = Some(now)
              /\ \A f \in DOMAIN state \ {"actions_since_reflection", "last_reflection"} :
                    state'[f] = state[f]
              /\ DOMAIN state' = DOMAIN state ]_vars

\* a reflection that was due, carried out on a State with a history
C9_Witness ==
    /\ last.op = "mark_reflection"
    /\ last.reflected
    /\ state.actions_since_reflection = 0
    /\ state.total_actions >= 10
    /\ Len(state.recent_actions) >= 10

\* C10: in every step of a supervised run the counter ends at the number of
\* actions the step recorded, counted from 0 if the step reflected and from its
\* old value otherwise; a step reflects only when the counter had reached 10
C10_CounterResetOnlyByReflection ==
    [][ /\ state'.actions_since_reflection =
              (IF last'.reflected THEN 0 ELSE state.actions_since_reflection)
              + Len(last'.descs)
        /\ last'.reflected =>
              /\ last'.op \in {"Iterate", "IterateInterrupted"}
              /\ should_reflect(state)
        /\ Len(last'.descs) = state'.total_actions - state.total_actions ]_vars

\* a session on an existing workspace reflected and went on recording
C10_Witness ==
    /\ last.op = "Iterate"
    /\ last.reflected
    /\ Len(last.descs) = 2
    /\ state.actions_since_reflection = 2
    /\ state.total_actions > 10
    /\ stats.sessions_completed = 1

persisted_total(file) == IF file = <<>> THEN 0 ELSE load_state(file, 0).total_actions

\* C11: in every step of a supervised run total_actions grows by one for each
\* action the step recorded and by nothing else, the persisted total never
\* decreases, and what is persisted is the total held in memory
C11_TotalActionsNeverDecreases ==
    [][ /\ state'.total_actions = state.total_actions + Len(last'.descs)
        /\ state'.total_actions >= state.total_actions
        /\ persisted_total(state_file') >= persisted_total(state_file)
        /\ state_file' # <<>> => persisted_total(state_file') = state'.total_actions ]_vars

\* the second session on a workspace reflected, met an exception and recorded it
C11_Witness ==
    /\ last.op = "Iterate"
    /\ last.raised
    /\ last.reflected
    /\ sessions_returned = 1
    /\ state.total_actions = ReflectEvery + 1
    /\ state_file = save_state(state)

delivered(request, kind) == \E i \in 1..Len(request) : request[i].kind = kind

\* C12: an iteration that starts with should_reflect true sends a request that
\* holds the reflection prompt, and leaves the reflection counter restarted
C12_ReflectionPromptDelivered ==
    [][ (last'.reflected /\ last'.request # <<>>) =>
            /\ delivered(last'.request, "reflection_prompt")
            /\ state'.actions_since_reflection = Len(last'.descs) ]_vars

C14_RequestsBounded == Len(last.request) <= 20

complete_goal_descs == { descriptor("complete_goal", json_loads(a)) : a \in {ArgsSummary, ArgsEmpty} }

completion_of(descs) == { i \in 1..Len(descs) : descs[i] \in complete_goal_descs }

\* C15: an iteration in which a complete_goal call was dispatched records and
\* saves that call as its last action and stops the loop, and once the loop is
\* stopped the session sends no request and records nothing
C15_CompletionIsTerminal ==
    [][ /\ completion_of(last'.descs) # {} =>
              /\ completion_of(last'.descs) = {Len(last'.descs)}
              /\ ~running'
              /\ state_file' = save_state(state')
              /\ state'.recent_actions[Len(state'.recent_actions)].action \in complete_goal_descs
        /\ (agent_pc \in {"loop", "break"} /\ ~running) =>
              /\ last'.request = <<>>
              /\ last'.descs = <<>> ]_vars

\* C15, for a complete_goal call that carries its summary
C15_CompletionWithSummaryIsTerminal ==
    [][ /\ descriptor("complete_goal", json_loads(ArgsSummary)) \in SeqRange(last'.descs) =>
              /\ completion_of(last'.descs) = {Len(last'.descs)}
              /\ ~running'
              /\ ~last'.raised
              /\ state_file' = save_state(state')
              /\ state'.recent_actions[Len(state'.recent_actions)] =
                    action_entry(now, descriptor("complete_goal", json_loads(ArgsSummary)),
                                 execute_tool("complete_goal", json_loads(ArgsSummary), TRUE))
        /\ (agent_pc \in {"loop", "break"} /\ ~running) =>
              /\ last'.request = <<>>
              /\ last'.descs = <<>>
              /\ state' = state
        /\ descriptor("complete_goal", json_loads(ArgsEmpty)) \in SeqRange(last'.descs) =>
              /\ last'.raised
              /\ running' ]_vars

\* the first answer carried complete_goal and one more call: complete_goal
\* alone was recorded and the loop is stopped
C15_Witness ==
    /\ sess_descs = << descriptor("complete_goal", json_loads(ArgsSummary)) >>
    /\ ~running
    /\ iteration = 1
    /\ last.op = "Iterate"
    /\ last.calls = 2
    /\ last.descs = << descriptor("complete_goal", json_loads(ArgsSummary)) >>
    /\ state_file = save_state(state)

\* C16: an iteration whose answer is the pause signal stops the loop, records
\* no action, and is the last iteration of the session
C16_PauseSignalStopsLoop ==
    [][ (last'.op = "V1Iterate" /\ last'.content = "wait_for_input") =>
            /\ ~running'
            /\ last'.descs = <<>>
            /\ state' = state ]_vars

\* C17: the iteration counter grows by one with every iteration and never
\* passes max_iterations, an iteration sends at most one request, with the
\* counter at max_iterations the only step left is the return of run, and
\* every session does return
C17_SessionTerminates ==
    /\ [](iteration <= cfg.session_iterations /\ flags.iterations = iteration)
    /\ [][ /\ last'.op = "Iterate" =>
                 /\ iteration' = iteration + 1
                 /\ iteration < cfg.session_iterations
           /\ last'.request # <<>> => last'.op = "Iterate"
           /\ (agent_pc = "loop" /\ iteration = cfg.session_iterations) =>
                 /\ last'.op = "SessionReturn"
                 /\ agent_pc' = "idle" ]_vars
    /\ <>(agent_pc = "idle")

\* the session ran into its iteration limit after tool calls, free text, and a
\* caught exception, and has returned
C17_Witness ==
    /\ agent_pc = "idle"
    /\ last.op = "SessionReturn"
    /\ running
    /\ iteration = cfg.session_iterations
    /\ occurrences(sess_descs, "error") = 1
    /\ Len(sess_descs) > 2
    /\ result.total_actions = Len(sess_descs)

UnknownCall == descriptor("deploy", json_loads(ArgsEmpty))

\* C18: an iteration that dispatches a call to a tool outside the catalog adds
\* a failed record with the summary "Unknown tool: <name>" under that call's
\* descriptor, raises nothing, saves the State and leaves the loop running
C18_UnknownToolRecordedLoopContinues ==
    [][ (last'.op = "Iterate" /\ UnknownCall \in SeqRange(last'.descs)) =>
            LET rec == state'.recent_actions[Len(state'.recent_actions)]
            IN  /\ rec.action = UnknownCall
                /\ ~rec.success
                /\ rec.summary = "Unknown tool: deploy"
                /\ "error" \notin SeqRange(last'.descs)
                /\ ~last'.raised
                /\ state'.total_actions = state.total_actions + Len(last'.descs)
                /\ state_file' = save_state(state')
                /\ running'
                /\ agent_pc' = "loop" ]_vars

\* the first iteration met an unknown tool, the second went on to run a command
C18_Witness ==
    /\ last.op = "Iterate"
    /\ iteration = 2
    /\ Len(sess_descs) = 2
    /\ sess_descs[1] = UnknownCall
    /\ sess_descs[2] = descriptor("run_command", json_loads(ArgsCommand))
    /\ ~state.recent_actions[Len(state.recent_actions) - 1].success
    /\ state.recent_actions[Len(state.recent_actions)].success

recorded_tail(k) == LastN(sess_descs, k)

\* C19: detect_loop answers the descriptor when the last three recorded are
\* equal, None when they are pairwise distinct, and None when fewer than three
\* have been recorded
C19_DetectLoopOnRepeats ==
    LET t == recorded_tail(3)
    IN  /\ Len(sess_descs) < 3 => detect_loop(monitor) = None
        /\ (Len(sess_descs) >= 3 /\ t[1] = t[2] /\ t[2] = t[3]) =>
              detect_loop(monitor) = Some(t[3])
        /\ (Len(sess_descs) >= 3 /\ t[1] # t[2] /\ t[2] # t[3] /\ t[1] # t[3]) =>
              detect_loop(monitor) = None

\* B and then A three times: the loop on A is reported
C19_Witness ==
    /\ sess_descs = <<"B", "A", "A", "A">>
    /\ detect_loop(monitor) = Some("A")
    /\ should_restart(monitor, now).reason = Some("loop_detected")

\* C20: when the last four recorded descriptors are A, B, A, B with A # B,
\* detect_loop answers something other than None and should_restart reports
\* a loop
C20_AlternationDetected ==
    LET t == recorded_tail(4)
    IN  (Len(sess_descs) >= 4 /\ t[1] = t[3] /\ t[2] = t[4] /\ t[1] # t[2]) =>
            /\ detect_loop(monitor) # None
            /\ should_restart(monitor, now).should_restart
            /\ should_restart(monitor, now).reason = Some("loop_detected")

\* the last k calls of record_action, oldest first
last_calls(k) == LastN(appended, k)

\* C21: after three record_action calls in a row with one descriptor D and no
\* progress, should_restart answers yes with the reason "loop_detected" and
\* details that name D
C21_ThreeRepeatsAskForRestart ==
    LET c == last_calls(3)
        d == should_restart(monitor, now)
    IN  (/\ Len(appended) >= 3
         /\ c[1].action = c[2].action /\ c[2].action = c[3].action
         /\ \A i \in 1..3 : ~c[i].made_progress) =>
            /\ d.should_restart
            /\ d.reason = Some("loop_detected")
            /\ d.details = Some(<<"Agent stuck repeating: ", c[3].action>>)

\* three stalled calls with descriptor A, long after the last progress and
\* with many tokens spent: the reason given is still the loop
C21_Witness ==
    /\ Len(appended) = 3
    /\ \A i \in 1..3 : appended[i].action = "A" /\ ~appended[i].made_progress
    /\ check_watchdog(monitor, now)
    /\ check_token_waste(monitor)
    /\ should_restart(monitor, now).details = Some(<<"Agent stuck repeating: ", "A">>)

last_progress_instant ==
    LET flagged == { i \in 1..Len(appended) : appended[i].made_progress }
    IN  IF flagged = {}
        THEN 0
        ELSE appended[CHOOSE i \in flagged : \A j \in flagged : j <= i].progress_at[1]

\* C23: check_watchdog is true exactly when more than 1800 seconds have
\* passed since the most recent call flagged as progress (since construction
\* when there is none), so it is false right after such a call, and calls
\* without progress do not move the instant it counts from
C23_WatchdogCountsFromProgress ==
    /\ check_watchdog(monitor, now) <=> (now - last_progress_instant > 1800)
    /\ monitor.last_progress_time = last_progress_instant
    /\ (last.op = "record_action" /\ appended[Len(appended)].made_progress) =>
          ~check_watchdog(monitor, now)

\* progress was flagged at 1800, a call without progress followed, and 3600
\* seconds after the progress the watchdog is on
C23_Witness ==
    /\ Len(appended) >= 2
    /\ appended[1].progress_at = Some(1800)
    /\ \A i \in 2..Len(appended) : ~appended[i].made_progress
    /\ now = 5400
    /\ last.op = "record_action"
    /\ check_watchdog(monitor, now)

RECURSIVE tokens_since_progress(_)
tokens_since_progress(calls) ==
    IF calls = <<>>
    THEN 0
    ELSE LET c == calls[Len(calls)]
         IN  IF c.made_progress
             THEN 0
             ELSE tokens_since_progress(SubSeq(calls, 1, Len(calls) - 1)) + c.tokens_used

\* C24: the accumulator is the sum of tokens_used over the calls made after
\* the most recent call flagged as progress, and only a record_action call
\* flagged as progress lowers the accumulator or moves last_progress_time
C24_AccumulatorSinceProgress ==
    [][ /\ monitor'.total_tokens_since_progress = tokens_since_progress(appended')
        /\ (\/ monitor'.total_tokens_since_progress < monitor.total_tokens_since_progress
            \/ monitor'.last_progress_time # monitor.last_progress_time) =>
              /\ last'.op = "record_action"
              /\ appended'[Len(appended')].made_progress
        /\ last'.op # "record_action" => monitor' = monitor ]_vars

\* tokens were spent, then a call flagged as progress that carried tokens
\* itself left the accumulator at 0
C24_Witness ==
    /\ Len(appended) = 2
    /\ appended[1].tokens_used = 60000 /\ ~appended[1].made_progress
    /\ appended[2].tokens_used = 60000 /\ appended[2].made_progress
    /\ appended[2].progress_at = Some(1800)
    /\ monitor.total_tokens_since_progress = 0
    /\ monitor.last_progress_time = 1800

\* C25: after n calls the ring holds the last min(n, 10) descriptors in the
\* order recorded, so never more than 10
C25_RingHoldsLastTen ==
    LET n == Len(sess_descs)
        k == IF n < 10 THEN n ELSE 10
    IN  /\ Len(monitor.recent_actions) = k
        /\ Len(monitor.recent_actions) <= 10
        /\ \A i \in 1..k : monitor.recent_actions[i] = sess_descs[n - k + i]

\* twelve calls: the two oldest descriptors, both A, are gone from a ring that
\* holds B only
C25_Witness ==
    /\ Len(sess_descs) = 12
    /\ sess_descs[1] = "A" /\ sess_descs[2] = "A"
    /\ \A i \in 3..12 : sess_descs[i] = "B"
    /\ monitor.recent_actions = [i \in 1..10 |-> "B"]

\* C26: a call of get_status, detect_loop, check_watchdog, check_token_waste
\* or should_restart leaves the ring, last_progress_time and the accumulator
\* as they were, and so answers the same when called again
C26_QueriesReadOnly ==
    [][ last'.op = "query" =>
            /\ monitor'.recent_actions = monitor.recent_actions
            /\ monitor'.last_progress_time = monitor.last_progress_time
            /\ monitor'.total_tokens_since_progress = monitor.total_tokens_since_progress
            /\ DOMAIN monitor' = DOMAIN monitor
            /\ get_status(monitor', now') = get_status(monitor, now)
            /\ should_restart(monitor', now') = should_restart(monitor, now) ]_vars

\* a query was made of a monitor that has a loop to report, tokens counted and
\* a watchdog that is on
C26_Witness ==
    /\ last.op = "query"
    /\ get_status(monitor, now).loop_detected = Some("B")
    /\ ~get_status(monitor, now).watchdog_ok
    /\ ~get_status(monitor, now).token_usage_ok
    /\ get_status(monitor, now).tokens_since_progress = 120000
    /\ get_status(monitor, now).time_since_progress = 3600
    /\ Len(get_status(monitor, now).recent_actions) = 4

\* the instants at which a milestone-recording call was made
milestone_instants == { appended[i].at : i \in { j \in 1..Len(appended) : appended[j].milestone } }

\* C27: made_progress_recently(window) is true exactly when a milestone was
\* recorded less than window seconds ago: false on a fresh tracker, true right
\* after any milestone-recording call, false once the last milestone is more
\* than window seconds old
C27_RecentProgressIsWindowed ==
    /\ \A window \in TrackerWindows :
          made_progress_recently(tracker, now, window)
              <=> (\E at \in milestone_instants : at > now - window)
    /\ appended = <<>> => ~made_progress_recently(tracker, now, 600)
    /\ last.op \in {"record_file_created", "record_file_modified", "record_command_success"}
          => made_progress_recently(tracker, now, 600)
    /\ (\A at \in milestone_instants : now - at > 600)
          => ~made_progress_recently(tracker, now, 600)

\* a file was created at 300, an error was recorded later, and 900 seconds
\* after the file the tracker reports no recent progress
C27_Witness ==
    /\ Len(appended) = 2
    /\ appended[1].op = "record_file_created" /\ appended[1].at = 300
    /\ appended[2].op = "record_error" /\ appended[2].at = 900
    /\ now = 1200
    /\ tracker.files_created = {"main.py"}
    /\ tracker.errors_encountered = 1
    /\ ~made_progress_recently(tracker, now, 600)
    /\ made_progress_recently(tracker, now - 600, 600)

\* C28: update_memory_file(k, X) followed by load_memory() returns X for k
\* and every other document as it was, a missing one still missing
C28_UpdateThenLoadReturnsContent ==
    (last.op = "update_memory_file" /\ ~last.raised) =>
        LET k == last.descs[1]
            loaded == load_memory(memory_files)
            earlier == load_memory(last.before)
        IN  /\ k \in DOMAIN loaded
            /\ loaded[k] = last.request
            /\ \A j \in MemoryKinds \ {k} :
                  /\ j \in DOMAIN loaded <=> j \in DOMAIN earlier
                  /\ j \in DOMAIN loaded => loaded[j] = earlier[j]

\* C29: update_memory_file with a kind outside the four raises the
\* unknown-kind error and leaves every memory file as it was
C29_UnknownKindRejected ==
    (last.op = "update_memory_file" /\ last.descs[1] \notin MemoryKinds) =>
        /\ last.raised
        /\ last.error = Some(<<"Unknown memory file type: ", last.descs[1]>>)
        /\ memory_files = last.before
        /\ load_memory(memory_files) = load_memory(last.before)

\* an update of kind "notes" was refused while goals existed and the other
\* three documents did not
C29_Witness ==
    /\ last.op = "update_memory_file"
    /\ last.descs = <<"notes">>
    /\ last.request = <<"a">>
    /\ last.raised
    /\ memory_files["goals"] = Some(<<"a", "\n", "b">>)
    /\ DOMAIN load_memory(memory_files) = {"goals"}

\* C30: load_memory has an entry for exactly the documents that exist; a
\* missing document has none, an existing empty one has the empty text
C30_LoadOmitsMissing ==
    last.op = "load_memory" =>
        /\ DOMAIN last.memory = { k \in MemoryKinds : memory_files[k] # None }
        /\ \A k \in MemoryKinds :
              /\ memory_files[k] = None => k \notin DOMAIN last.memory
              /\ memory_files[k] = Some(<<>>) => (k \in DOMAIN last.memory /\ last.memory[k] = <<>>)

\* a load with goals existing and empty, progress existing with text, and
\* decisions and blockers missing
C30_Witness ==
    /\ last.op = "load_memory"
    /\ memory_files["goals"] = Some(<<>>)
    /\ memory_files["progress"] = Some(<<"a">>)
    /\ memory_files["decisions"] = None
    /\ memory_files["blockers"] = None
    /\ DOMAIN last.memory = {"goals", "progress"}
    /\ last.memory["goals"] = <<>>

\* C31: for every State the loop holds, load_state after save_state gives the
\* State back, saving what was loaded writes the same document, and a load
\* without a State file gives the default State: phase "initialization", no
\* history, counters at 0
C31_SaveLoadRoundTrip ==
    /\ load_state(save_state(state), now) = state
    /\ state_file # <<>> => save_state(load_state(state_file, now)) = state_file
    /\ LET fresh == load_state(<<>>, now)
       IN  /\ fresh.current_phase = "initialization"
           /\ fresh.recent_actions = <<>>
           /\ fresh.total_actions = 0
           /\ fresh.actions_since_reflection = 0
           /\ fresh.last_reflection = None

\* a State with a reflection instant, a failed record and a successful one was
\* saved and is what a load gives
C31_Witness ==
    /\ state_file # <<>>
    /\ load_state(state_file, now) = state
    /\ state.last_reflection # None
    /\ \E i \in 1..Len(state.recent_actions) : ~state.recent_actions[i].success
    /\ \E i \in 1..Len(state.recent_actions) : state.recent_actions[i].success
    /\ state.metadata.goal_set
    /\ state_file[1].value.last_reflection.type = "string"

\* C32: the accounting of a returned session writes the stats file with that
\* session counted, a returned session is left behind by that accounting or by
\* KeyboardInterrupt only, a session starts only with the stats of the sessions
\* before it on file, and a run that has ended has its final stats, end
\* timestamp included, on file
C32_StatsPersistedAfterEverySession ==
    [][ /\ last'.op = "PostSession" =>
              /\ stats_file' = update_stats(stats')
              /\ stats_file'[1].sessions_completed =
                    stats.sessions_completed + (IF result.success THEN 1 ELSE 0)
              /\ stats_file'[1].sessions_failed =
                    stats.sessions_failed + (IF result.success THEN 0 ELSE 1)
              /\ stats_file'[1].total_runtime = stats.total_runtime + result.duration
        /\ (sup_pc = "update" /\ sup_pc' # "update") =>
              last'.op \in {"PostSession", "Interrupt"}
        /\ (sup_pc' = "session" /\ sup_pc # "session" /\ sessions_returned > 0) =>
              stats_file = update_stats(stats)
        /\ sup_pc' = "done" =>
              /\ stats_file' = update_stats(stats')
              /\ stats_file'[1].ended_at = Some(now')
              /\ stats_file'[1].sessions_completed = stats.sessions_completed
              /\ stats_file'[1].sessions_failed = stats.sessions_failed ]_vars

\* a run with one completed and one failed session was interrupted and ended
\* with its final stats on file
C32_Witness ==
    /\ sup_pc = "done"
    /\ flags.interrupted
    /\ stats.sessions_completed = 1
    /\ stats.sessions_failed = 1
    /\ stats_file = update_stats(stats)
    /\ stats_file[1].ended_at = Some(now)
    /\ Len(stats_file[1].errors) = 1

\* C33 as claimed: one iteration of the loop appends at most one ActionRecord,
\* so total_actions grows by at most 1 in an iteration
C33_OneRecordPerIteration ==
    [][ last'.op \in {"Iterate", "IterateInterrupted"} =>
            /\ state'.total_actions <= state.total_actions + 1
            /\ Len(last'.descs) <= 1 ]_vars

\* C34: at the end of an iteration that a tool call, free text, a reflection,
\* a caught exception, a completion or an interrupt inside the try block went
\* through, the State file exists and a load gives the State in memory, every
\* record of the iteration included
C34_PersistedEveryIteration ==
    last.op \in {"Iterate", "IterateInterrupted"} =>
        /\ state_file # <<>>
        /\ load_state(state_file, now) = state
        /\ LET persisted == load_state(state_file, now).recent_actions
               k == Len(last.descs)
           IN  /\ Len(persisted) >= k
               /\ \A i \in 1..k :
                     persisted[Len(persisted) - k + i].action = last.descs[i]
        /\ persisted_total(state_file) = state.total_actions

\* an iteration that reflected, recorded a tool call and then met an exception
\* has both records on file
C34_Witness ==
    /\ last.op = "Iterate"
    /\ last.reflected
    /\ last.raised
    /\ Len(last.descs) = 2
    /\ last.descs[2] = "error"
    /\ state_file # <<>>
    /\ LET persisted == load_state(state_file, now).recent_actions
       IN  /\ persisted[Len(persisted)].action = "error"
           /\ persisted[Len(persisted) - 1].action = last.descs[1]
    /\ load_state(state_file, now).actions_since_reflection = 2

C36_SessionEndsAtTimeout ==
    [][ ( /\ agent_pc = "loop"
          /\ last.op = "Iterate"
          /\ now - times.session_start >= session_timeout )
        => last'.op \notin {"Iterate", "IterateInterrupted"} ]_vars

\* C37 as claimed: the accounting of a successful session adds to
\* stats.total_actions the number of actions that session recorded
C37_TotalActionsCountsEachActionOnce ==
    [][ (last'.op = "PostSession" /\ result.success) =>
            stats'.total_actions = stats.total_actions + Len(sess_descs) ]_vars

\* C38: whenever the supervisor is between sessions or in one, the two session
\* counters add up to the number of sessions that have returned and the error
\* log has one entry for each failed session; no step lowers a counter or
\* shortens the log
C38_SessionCountersAddUp ==
    [][ /\ sup_pc' \in {"while", "session"} =>
              /\ stats'.sessions_completed + stats'.sessions_failed = flags'.returned
              /\ Len(stats'.errors) = stats'.sessions_failed
        /\ stats'.sessions_completed >= stats.sessions_completed
        /\ stats'.sessions_failed >= stats.sessions_failed
        /\ Len(stats'.errors) >= Len(stats.errors) ]_vars

\* between sessions, after a session that failed and one that completed
C38_Witness ==
    /\ sup_pc = "while"
    /\ flags.returned = 2
    /\ stats.sessions_failed = 1
    /\ stats.sessions_completed = 1
    /\ Len(stats.errors) = 1
    /\ stats.errors[1].error = "The api_key client option must be set"

\* a conversation that starts with the system prompt, in which every tool
\* message follows the assistant message whose tool call it answers and every
\* tool call of an assistant message is followed by its tool message
well_formed(conversation) ==
    /\ conversation # <<>>
    /\ conversation[1].kind = "system_prompt"
    /\ \A i \in 1..Len(conversation) :
          conversation[i].role = "tool" =>
              LET j == i - conversation[i].n
              IN  /\ j >= 1
                  /\ conversation[j].role = "assistant"
                  /\ conversation[j].at = conversation[i].at
    /\ \A j \in 1..Len(conversation) :
          conversation[j].role = "assistant" =>
              \A k \in 1..conversation[j].n :
                  /\ j + k <= Len(conversation)
                  /\ conversation[j + k] = tool_message(conversation[j].at, k)

\* C39 as claimed: every request sent to the collaborator carries a
\* well-formed conversation
C39_RequestsWellFormed ==
    (last.op = "Iterate" /\ last.request # <<>>) => well_formed(last.request)

\* C40: the start of a session leaves the progress, decisions and blockers
\* documents as they are and writes the goal template of the supervisor's goal
\* as the goals document, whatever the goals document held before
C40_RestartOverwritesGoalsOnly ==
    [][ (last'.op = "AgentStartup" /\ ~last'.raised) =>
            /\ \A kind \in {"progress", "decisions", "blockers"} :
                  memory_files'[kind] = memory_files[kind]
            /\ DOMAIN load_memory(memory_files') = DOMAIN load_memory(memory_files) \cup {"goals"}
            /\ \A kind \in DOMAIN load_memory(memory_files) \ {"goals"} :
                  load_memory(memory_files')[kind] = load_memory(memory_files)[kind]
            /\ memory_files'["goals"] = Some(goals_content(cfg.goal))
            /\ load_memory(memory_files')["goals"] = goals_content(cfg.goal) ]_vars

\* the second session has started: the goals the first session wrote with
\* update_memory are replaced by the template, the progress it wrote is kept
C40_Witness ==
    /\ last.op = "AgentStartup"
    /\ ~last.raised
    /\ stats.sessions_completed = 1
    /\ \E i \in 1..Len(state.recent_actions) :
          /\ state.recent_actions[i].action = descriptor("update_memory", json_loads(ArgsGoals))
          /\ state.recent_actions[i].success
    /\ \E i \in 1..Len(state.recent_actions) :
          state.recent_actions[i].action = descriptor("update_memory", json_loads(ArgsProgress))
    /\ memory_files["progress"] = Some(<<"tests pass">>)
    /\ memory_files["decisions"] = Some(<<"use sqlite">>)
    /\ memory_files["blockers"] = None
    /\ memory_files["goals"] = Some(goals_content(Goal))
    /\ memory_files["goals"] # Some(<<"ship v2">>)

====
